---- MODULE Spec2Model ----
(***************************************************************************)
(* Payload field index subsystem of the vector search engine.              *)
(*                                                                         *)
(* The facade (FieldIndex, ValueIndexer, FieldIndexBuilder) is translated  *)
(* from lib/segment/src/index/field_index/field_index_base.rs.  The        *)
(* per-type engines behind it (numeric, map, geo, full-text, bool, null)   *)
(* live in sibling modules; they are modelled from the specification's     *)
(* component design (sections 3 and 4).                                    *)
(***************************************************************************)
EXTENDS Integers, Sequences, FiniteSets, TLC

VARIABLES
    builder,    \* the FieldIndexBuilder in use, or NoBuilder
    index,      \* the FieldIndex in use, or NoIndex
    payloads,   \* point id -> the payload the index holds of the point, or NoPayload
    disk,       \* what the index has made durable: its files and, for reference, the
                \* payloads the index held when it wrote them; NoDisk before any flush
    flushers,   \* the closures handed out by flusher() and not yet invoked, oldest
                \* first, each with whether the index was mutated since
    scorer,     \* a QuantizedMultiQueryScorer over a quantized multivector storage:
                \* the storage, the query, the hardware counter it owns and the calls
                \* made to it
    http,       \* the REST handler that answers through time / time_or_accept: its
                \* position, the spawned task, the error log and the response
    grpc,       \* the gRPC request passing the auth middleware: its position, the
                \* request with its extensions, and what the middleware did
    last        \* the last call made on the builder / index and what it returned; for
                \* add_point / remove_point of the index whether the point held values
                \* before, for the builder the phase it was in and whether the id given
                \* to add_point was above the previous one, and the builder variant
                \* finalize was called on

vars == <<builder, index, payloads, disk, flushers, scorer, http, grpc, last>>
index_vars == <<builder, index, payloads, disk, flushers, last>>

(***************************************************************************)
(* Bounds of the model.                                                    *)
(***************************************************************************)
\* Point offsets are 0..MaxPoint.
MaxPoint == 1
\* Depth of a histogram bucket of the numeric index (entries per bucket).
BucketDepth == 2
\* Flusher closures handed out and not yet invoked.
MaxFlushers == 2
\* REST requests answered one after the other.
MaxRequests == 2
\* Calls made to one scorer.
MaxCalls == 3
\* Sub-vectors of one stored multivector.
MaxSubVectors == 2

Ids == 0..MaxPoint

Max(a, b) == IF a >= b THEN a ELSE b
Min(a, b) == IF a <= b THEN a ELSE b

RECURSIVE SumSeq(_)
SumSeq(s) == IF s = <<>> THEN 0 ELSE Head(s) + SumSeq(Tail(s))

RECURSIVE ProdSeq(_)
ProdSeq(s) == IF s = <<>> THEN 1 ELSE Head(s) * ProdSeq(Tail(s))

RECURSIVE Pow(_, _)
Pow(b, e) == IF e <= 0 THEN 1 ELSE b * Pow(b, e - 1)

RECURSIVE SetToSeq(_)
SetToSeq(S) == IF S = {} THEN <<>> ELSE LET x == CHOOSE y \in S : TRUE IN <<x>> \o SetToSeq(S \ {x})

Range(s) == {s[i] : i \in 1..Len(s)}

(***************************************************************************)
(* serde_json::Value, as far as the projections below tell values apart.   *)
(* A string is a sequence of words; a string that parses as an RFC 3339    *)
(* datetime or as a UUID carries the number it parses to.                  *)
(***************************************************************************)
JNull == [t |-> "null"]
JBool(b) == [t |-> "bool", b |-> b]
JInt(n) == [t |-> "int", n |-> n]
\* a JSON number with a fractional part, in tenths: JFloat(15) is 1.5
JFloat(x) == [t |-> "float", x |-> x]
JStr(w) == [t |-> "str", w |-> w]
\* a string holding a datetime, us microseconds after the epoch
JDate(us) == [t |-> "datestr", us |-> us]
\* a string holding a UUID of 128-bit value u
JUuid(u) == [t |-> "uuidstr", u |-> u]
\* an object {"lat": .., "lon": ..}
JGeo(lat, lon) == [t |-> "geo", lat |-> lat, lon |-> lon]
JArray(a) == [t |-> "array", a |-> a]

Variants == {"IntIndex", "DatetimeIndex", "IntMapIndex", "KeywordIndex", "FloatIndex",
             "GeoIndex", "FullTextIndex", "BoolIndex", "UuidIndex", "UuidMapIndex",
             "NullIndex"}

\* the variants over an ordered scalar key / over a discrete key set
NumericVariants == {"IntIndex", "DatetimeIndex", "FloatIndex", "UuidIndex"}
MapVariants == {"IntMapIndex", "KeywordIndex", "UuidMapIndex"}

None == [some |-> FALSE]
Some(x) == [some |-> TRUE, v |-> x]

(***************************************************************************)
(* Full-text tokenizer: casefold, split into words, drop stop-words; a     *)
(* token keeps its 0-based position in the stream before stop-word         *)
(* removal.  The stop-word list is the one of the configured language.     *)
(***************************************************************************)
FRENCH_STOPWORDS == {
    "au", "aux", "avec", "ce", "ces", "dans", "de", "des", "du", "elle", "en", "et", "eux",
    "il", "ils", "je", "la", "le", "les", "leur", "lui", "ma", "mais", "me", "même", "mes",
    "moi", "mon", "ne", "nos", "notre", "nous", "on", "ou", "par", "pas", "pour", "qu", "que",
    "qui", "sa", "se", "ses", "son", "sur", "ta", "te", "tes", "toi", "ton", "tu", "un", "une",
    "vos", "votre", "vous", "c", "d", "j", "l", "à", "m", "n", "s", "t", "y", "été", "étée",
    "étées", "étés", "étant", "étante", "étants", "étantes", "suis", "es", "est", "sommes",
    "êtes", "sont", "serai", "seras", "sera", "serons", "serez", "seront", "serais", "serait",
    "serions", "seriez", "seraient", "étais", "était", "étions", "étiez", "étaient", "fus",
    "fut", "fûmes", "fûtes", "furent", "sois", "soit", "soyons", "soyez", "soient", "fusse",
    "fusses", "fût", "fussions", "fussiez", "fussent", "ayant", "ayante", "ayantes", "ayants",
    "eu", "eue", "eues", "eus", "ai", "as", "avons", "avez", "ont", "aurai", "auras", "aura",
    "aurons", "aurez", "auront", "aurais", "aurait", "aurions", "auriez", "auraient", "avais",
    "avait", "avions", "aviez", "avaient", "eut", "eûmes", "eûtes", "eurent", "aie", "aies",
    "ait", "ayons", "ayez", "aient", "eusse", "eusses", "eût", "eussions", "eussiez", "eussent"}

\* the english list, as far as the words of the model go
ENGLISH_STOPWORDS == {
    "a", "an", "and", "are", "as", "at", "be", "but", "by", "for", "if", "in", "into", "is",
    "it", "no", "not", "of", "on", "or", "such", "that", "the", "their", "then", "there",
    "these", "they", "this", "to", "was", "will", "with"}

\* the stop-word list of a language
stop_words(lang) ==
    CASE lang = "french" -> FRENCH_STOPWORDS
      [] lang = "english" -> ENGLISH_STOPWORDS

\* casefolding of the words the model uses
Lower(w) == CASE w = "Le" -> "le"
              [] w = "Renard" -> "renard"
              [] w = "The" -> "the"
              [] w = "A" -> "a"
              [] OTHER -> w

RECURSIVE tokenize_from(_, _, _)
tokenize_from(lang, words, pos) ==
    IF words = <<>> THEN <<>>
    ELSE LET w == Lower(Head(words)) IN
         (IF w \in stop_words(lang) THEN <<>> ELSE <<[tok |-> w, pos |-> pos]>>)
            \o tokenize_from(lang, Tail(words), pos + 1)

tokenize(lang, words) == tokenize_from(lang, words, 0)

\* the token stream of several text values of one point, one after the other
RECURSIVE tokenize_doc(_, _, _)
tokenize_doc(lang, values, pos) ==
    IF values = <<>> THEN <<>>
    ELSE tokenize_from(lang, Head(values).w, pos)
            \o tokenize_doc(lang, Tail(values), pos + Len(Head(values).w))

(***************************************************************************)
(* ValueIndexer                                                            *)
(***************************************************************************)
\* geohash cell of a coordinate pair (one precision level, cells of 2 x 2 degrees)
geo_cell(lat, lon) == [t |-> "cell", cy |-> lat \div 2, cx |-> lon \div 2]

\* ValueIndexer::get_value of each variant: the projection of one payload value
\* on the field domain, None for a value outside it.
get_value(variant, value) ==
    CASE variant \in {"IntIndex", "IntMapIndex"} ->
            IF value.t = "int" THEN Some([t |-> "key", n |-> value.n]) ELSE None
      [] variant = "FloatIndex" ->
            IF value.t = "int" THEN Some([t |-> "key", n |-> 10 * value.n])
            ELSE IF value.t = "float" THEN Some([t |-> "key", n |-> value.x])
            ELSE None
      [] variant = "DatetimeIndex" ->
            IF value.t = "datestr" THEN Some([t |-> "key", n |-> value.us]) ELSE None
      [] variant \in {"UuidIndex", "UuidMapIndex"} ->
            IF value.t = "uuidstr" THEN Some([t |-> "key", n |-> value.u]) ELSE None
      [] variant = "KeywordIndex" ->
            IF value.t \in {"str", "datestr", "uuidstr"} THEN Some([t |-> "kw", s |-> value]) ELSE None
      [] variant = "FullTextIndex" ->
            IF value.t = "str" THEN Some([t |-> "text", w |-> value.w]) ELSE None
      [] variant = "GeoIndex" ->
            IF value.t = "geo" THEN Some([t |-> "pt", lat |-> value.lat, lon |-> value.lon]) ELSE None
      [] variant = "BoolIndex" ->
            IF value.t = "bool" THEN Some([t |-> "flag", b |-> value.b]) ELSE None
      [] variant = "NullIndex" ->
            IF value.t # "null" THEN Some([t |-> "any"]) ELSE None

\* values.iter().filter_map(|x| Self::get_value(x)).collect()
RECURSIVE filter_map_get_value(_, _)
filter_map_get_value(variant, values) ==
    IF values = <<>> THEN <<>>
    ELSE LET x == get_value(variant, Head(values)) IN
         (IF x.some THEN <<x.v>> ELSE <<>>) \o filter_map_get_value(variant, Tail(values))

\* ValueIndexer::get_values
get_values(variant, value) ==
    IF value.t = "array" THEN filter_map_get_value(variant, value.a)
    ELSE LET x == get_value(variant, value) IN IF x.some THEN <<x.v>> ELSE <<>>

\* the loop of ValueIndexer::add_point with the array arm keeping the first element only
RECURSIVE flatten_values_first_of_array(_, _)
flatten_values_first_of_array(variant, payload) ==
    IF payload = <<>> THEN <<>>
    ELSE LET value == Head(payload) IN
         (IF value.t = "array"
          THEN (IF value.a = <<>> THEN <<>> ELSE filter_map_get_value(variant, <<Head(value.a)>>))
          ELSE LET x == get_value(variant, value) IN IF x.some THEN <<x.v>> ELSE <<>>)
            \o flatten_values_first_of_array(variant, Tail(payload))

\* the loop of ValueIndexer::add_point with the array arm flattening the arrays it
\* finds among the elements too
RECURSIVE flatten_values_deep(_, _)
flatten_values_deep(variant, payload) ==
    IF payload = <<>> THEN <<>>
    ELSE LET value == Head(payload) IN
         (IF value.t = "array" THEN flatten_values_deep(variant, value.a)
          ELSE LET x == get_value(variant, value) IN IF x.some THEN <<x.v>> ELSE <<>>)
            \o flatten_values_deep(variant, Tail(payload))

\* the loop of ValueIndexer::add_point that builds flatten_values
RECURSIVE flatten_values(_, _)
flatten_values(variant, payload) ==
    IF payload = <<>> THEN <<>>
    ELSE LET value == Head(payload) IN
         (IF value.t = "array" THEN filter_map_get_value(variant, value.a)
          ELSE LET x == get_value(variant, value) IN IF x.some THEN <<x.v>> ELSE <<>>)
            \o flatten_values(variant, Tail(payload))

(***************************************************************************)
(* FieldIndex: the tagged variant and the state of the engine it carries.  *)
(*   fwd          forward map, point id -> what the point contributed      *)
(*   inv          inverted side: posting entries (key, point id)           *)
(*   vcount       point id -> size of the value multiset of the point      *)
(*   points_count number of points with at least one value                 *)
(*   empties      points registered without any value (null index)         *)
(*   lang         language of the stop-word list (full-text index)         *)
(***************************************************************************)
NoIndex == [variant |-> "none"]
NoBuilder == [name |-> "none"]
NoPayload == [present |-> FALSE]
Payload(p) == [present |-> TRUE, p |-> p]

\* IndexMutability of an engine on a storage backend: the sorted mmap layouts are
\* sealed, the bitmap indexes (bool, null) and the other backends stay mutable.
engine_mutability(variant, storage) ==
    IF storage = "mmap" /\ variant \notin {"BoolIndex", "NullIndex"} THEN "immutable" ELSE "mutable"

empty_index(variant, storage, mutability) ==
    [variant |-> variant, storage |-> storage, mutability |-> mutability,
     fwd |-> [id \in Ids |-> <<>>], inv |-> {}, vcount |-> [id \in Ids |-> 0],
     points_count |-> 0, empties |-> {}, lang |-> "french"]

Ok(ix) == [res |-> "Ok", ix |-> ix]
Err(kind, ix) == [res |-> kind, ix |-> ix]

\* FieldIndex::get_payload_field_index with the UuidIndex arm handing out a map index
get_payload_field_index_uuid_as_map(variant) ==
    CASE variant \in {"IntIndex", "DatetimeIndex", "FloatIndex"} -> "numeric"
      [] variant \in {"IntMapIndex", "KeywordIndex", "UuidIndex", "UuidMapIndex"} -> "map"
      [] variant = "GeoIndex" -> "geo"
      [] variant = "BoolIndex" -> "bool"
      [] variant = "FullTextIndex" -> "text"
      [] variant = "NullIndex" -> "null"

\* FieldIndex::get_payload_field_index: the engine a variant carries
get_payload_field_index(variant) ==
    CASE variant = "IntIndex" -> "numeric"
      [] variant = "DatetimeIndex" -> "numeric"
      [] variant = "IntMapIndex" -> "map"
      [] variant = "KeywordIndex" -> "map"
      [] variant = "FloatIndex" -> "numeric"
      [] variant = "GeoIndex" -> "geo"
      [] variant = "BoolIndex" -> "bool"
      [] variant = "FullTextIndex" -> "text"
      [] variant = "UuidIndex" -> "numeric"
      [] variant = "UuidMapIndex" -> "map"
      [] variant = "NullIndex" -> "null"

\* what the forward map keeps of the values of one add_many call
stored_values(ix, values) ==
    CASE ix.variant = "FullTextIndex" -> tokenize_doc(ix.lang, values, 0)
      [] ix.variant = "NullIndex" -> <<>>
      [] OTHER -> values

\* the posting entries of point id for what the forward map keeps of it
posting_entries(variant, id, stored) ==
    CASE variant = "FullTextIndex" ->
            {[k |-> tk.tok, id |-> id, pos |-> tk.pos] : tk \in Range(stored)}
      [] variant = "GeoIndex" ->
            {[k |-> geo_cell(v.lat, v.lon), id |-> id] : v \in Range(stored)}
      [] OTHER -> {[k |-> v, id |-> id] : v \in Range(stored)}

\* ValueIndexer::add_many of the engines: insert the value multiset of one point
add_many(ix, id, values) ==
    IF ix.mutability = "immutable" THEN Err("ServiceError", ix)
    ELSE LET stored == stored_values(ix, values) IN
         Ok([ix EXCEPT !.fwd[id] = @ \o stored,
                       !.inv = @ \cup posting_entries(ix.variant, id, stored),
                       !.vcount[id] = @ + Len(values),
                       !.points_count = IF values # <<>> THEN @ + 1 ELSE @,
                       !.empties = IF ix.variant = "NullIndex" /\ values = <<>>
                                   THEN @ \cup {id} ELSE @])

\* ValueIndexer::remove_point of the engines: delete what the forward map holds of
\* the point from both directions; a point without values is left as it is.  A
\* sealed layout serves deletions too (it flips the point's bit in its bitmap of
\* live points); only insertion is refused by it.
remove_point(ix, id) ==
    Ok([ix EXCEPT !.fwd[id] = <<>>,
                  !.inv = @ \ posting_entries(ix.variant, id, ix.fwd[id]),
                  !.vcount[id] = 0,
                  !.points_count = IF ix.vcount[id] > 0 THEN @ - 1 ELSE @,
                  !.empties = @ \ {id}])

\* ValueIndexer::add_point without the pre-clear
ValueIndexer_add_point_no_preclear(ix, id, payload) ==
    add_many(ix, id, flatten_values(ix.variant, payload))

\* the rest of ValueIndexer::add_point that goes on after a pre-clear that failed
ValueIndexer_add_point_after_unchecked(cleared, ix, id, payload) ==
    add_many(cleared.ix, id, flatten_values(ix.variant, payload))

\* the rest of ValueIndexer::add_point after self.remove_point(id) returned cleared:
\* the ? returns its error, else the payload is flattened and handed to add_many
ValueIndexer_add_point_after(cleared, ix, id, payload) ==
    IF cleared.res # "Ok" THEN cleared
    ELSE add_many(cleared.ix, id, flatten_values(ix.variant, payload))

\* ValueIndexer::add_point
ValueIndexer_add_point(ix, id, payload) ==
    ValueIndexer_add_point_after(remove_point(ix, id), ix, id, payload)

\* the calls ValueIndexer::add_point makes on the engine, in order, with their arguments
ValueIndexer_add_point_calls(ix, id, payload) ==
    LET cleared == remove_point(ix, id) IN
    <<[f |-> "remove_point", id |-> id, values |-> <<>>]>>
        \o (IF cleared.res # "Ok" THEN <<>>
            ELSE <<[f |-> "add_many", id |-> id, values |-> flatten_values(ix.variant, payload)]>>)

\* FieldIndex::add_point: every arm hands the call to its engine
FieldIndex_add_point(ix, id, payload) ==
    CASE ix.variant \in Variants -> ValueIndexer_add_point(ix, id, payload)

\* FieldIndex::remove_point with the map and null arms doing nothing
FieldIndex_remove_point_skip_arm(ix, point_id) ==
    CASE ix.variant \in Variants \ (MapVariants \cup {"NullIndex"}) -> remove_point(ix, point_id)
      [] OTHER -> Ok(ix)

\* FieldIndex::remove_point that reports a point without values as an error
FieldIndex_remove_point_not_found(ix, point_id) ==
    IF ix.vcount[point_id] = 0 /\ point_id \notin ix.empties
    THEN Err("NotFound", ix) ELSE remove_point(ix, point_id)

\* FieldIndex::remove_point: every arm hands the call to its engine
FieldIndex_remove_point(ix, point_id) ==
    CASE ix.variant \in Variants -> remove_point(ix, point_id)

\* PayloadFieldIndex::count_indexed_points of the engines: "number of points with at
\* least one value indexed in here", on every engine
count_indexed_points(ix) == ix.points_count

\* FieldIndex::count_indexed_points that adds up the values of the points
FieldIndex_count_indexed_points_in_values(ix) == SumSeq([i \in 1..(MaxPoint + 1) |-> ix.vcount[i - 1]])

\* FieldIndex::count_indexed_points
FieldIndex_count_indexed_points(ix) ==
    CASE get_payload_field_index(ix.variant) \in {"numeric", "map", "geo", "bool", "text", "null"} ->
            count_indexed_points(ix)

\* values_count of the engines
values_count(ix, point_id) == ix.vcount[point_id]

\* FieldIndex::values_count
FieldIndex_values_count(ix, point_id) ==
    CASE ix.variant \in Variants -> values_count(ix, point_id)

\* FieldIndex::get_mutability_type / get_storage_type: what the engine reports
get_mutability_type(ix) == CASE ix.variant \in Variants -> ix.mutability
get_storage_type(ix) == CASE ix.variant \in Variants -> ix.storage

\* FieldIndex::get_full_index_type
get_full_index_type(ix) ==
    [index_type |-> ix.variant,
     mutability |-> get_mutability_type(ix),
     storage_type |-> get_storage_type(ix)]

\* the storage types that keep the index in files
OnDiskStorage == {"mmap", "gridstore", "rocksdb"}

(***************************************************************************)
(* Persistence: the files of an engine hold the forward data of the points *)
(* (keys, offsets, bitmaps); load rebuilds the postings and the point      *)
(* count from them.  Mutations stay pending in memory until a flusher      *)
(* closure runs.                                                           *)
(***************************************************************************)
NoDisk == [written |-> FALSE]
Disk(image, given) == [written |-> TRUE, image |-> image, given |-> given]

\* what an engine holds on disk of its state, by content: the values of every point
\* (keys), the size of the value multiset of every point (offsets) and the bitmap of
\* the points registered without a value.  The byte layout of the files, their
\* header and their checksum are written and read by the engines, whose code is not
\* part of the facade; the image stands for files that were written and read whole.
durable_image(ix) ==
    [variant |-> ix.variant, lang |-> ix.lang,
     keys |-> ix.fwd, offsets |-> ix.vcount, bitmap |-> ix.empties]

\* PayloadFieldIndex::flusher of the engines: a closure over the storage of the
\* engine, which writes what is pending there when it is invoked
flusher(ix) == [stale |-> FALSE, storage |-> ix.storage]

\* FieldIndex::flusher
FieldIndex_flusher(ix) ==
    CASE get_payload_field_index(ix.variant) \in {"numeric", "map", "geo", "bool", "text", "null"} ->
            flusher(ix)

\* the closure, invoked, in the reading "makes all mutations up to that call
\* durable": what the engine holds at the invocation is written.  Whether a closure
\* of an engine writes what was pending when it was made instead, and how a write
\* fails, is decided by the engines; no property is stated here that rests on it.
run_flusher(closure, ix, given, dsk) ==
    IF closure.storage = ix.storage THEN Disk(durable_image(ix), given) ELSE dsk

\* PayloadFieldIndex::load of the engines: Ok(false) when there is nothing to load,
\* else the index is rebuilt from the content of the files (the postings and the
\* point count from the values of the points); a file that fails its version or
\* checksum test is refused by the engines and is not among the images here
load(ix, dsk) ==
    IF ~dsk.written \/ dsk.image.variant # ix.variant THEN [loaded |-> FALSE, ix |-> ix]
    ELSE LET points == DOMAIN dsk.image.keys IN
         [loaded |-> TRUE,
          ix |-> [ix EXCEPT !.fwd = dsk.image.keys,
                            !.vcount = dsk.image.offsets,
                            !.empties = dsk.image.bitmap,
                            !.inv = UNION {posting_entries(ix.variant, id, dsk.image.keys[id]) : id \in points},
                            !.points_count = Cardinality({id \in points : dsk.image.offsets[id] > 0})]]

\* FieldIndex::load
FieldIndex_load(ix, dsk) ==
    CASE ix.variant \in Variants -> load(ix, dsk)

\* PayloadFieldIndex::cleanup of the engines: the files of the index are removed
cleanup(ix, dsk) == [res |-> "Ok", disk |-> NoDisk]

\* FieldIndex::cleanup: every arm hands over to the cleanup of its engine
FieldIndex_cleanup(ix, dsk) ==
    CASE ix.variant \in Variants -> cleanup(ix, dsk)

\* values_is_empty of the engines: the point holds no value, whether the field was
\* an empty array, was absent, or the point was never added or was removed
values_is_empty(ix, point_id) == ix.vcount[point_id] = 0

\* FieldIndex::values_is_empty
FieldIndex_values_is_empty(ix, point_id) ==
    CASE ix.variant \in Variants -> values_is_empty(ix, point_id)

(***************************************************************************)
(* FieldCondition: a record with one populated arm.                        *)
(***************************************************************************)
Unbounded == [kind |-> "unbounded"]
Incl(n) == [kind |-> "incl", n |-> n]
Excl(n) == [kind |-> "excl", n |-> n]

CRange(lo, hi) == [arm |-> "range", lo |-> lo, hi |-> hi]
CMatchValue(value) == [arm |-> "match_value", value |-> value]
CMatchAny(values) == [arm |-> "match_any", values |-> values]
CMatchExcept(values) == [arm |-> "match_except", values |-> values]
CMatchText(text) == [arm |-> "match_text", text |-> text]
CMatchPhrase(phrase) == [arm |-> "match_phrase", phrase |-> phrase]
CGeoBoundingBox(lat_lo, lat_hi, lon_lo, lon_hi) ==
    [arm |-> "geo_bounding_box", lat_lo |-> lat_lo, lat_hi |-> lat_hi, lon_lo |-> lon_lo, lon_hi |-> lon_hi]
CGeoRadius(lat, lon, r) == [arm |-> "geo_radius", lat |-> lat, lon |-> lon, r |-> r]
\* a polygon is given by the grid points it encloses
CGeoPolygon(pts) == [arm |-> "geo_polygon", pts |-> pts]
CIsNull == [arm |-> "is_null"]
CIsEmpty == [arm |-> "is_empty"]

\* the predicates each engine answers (the capability table of the data model)
supported_arms(engine) ==
    CASE engine = "numeric" -> {"range"}
      [] engine = "map" -> {"match_value", "match_any", "match_except"}
      [] engine = "geo" -> {"geo_bounding_box", "geo_radius", "geo_polygon"}
      [] engine = "text" -> {"match_text", "match_phrase"}
      [] engine = "bool" -> {"match_value"}
      [] engine = "null" -> {"is_null", "is_empty"}

\* the values a match arm names
match_values(cond) ==
    CASE cond.arm = "match_value" -> {cond.value}
      [] cond.arm \in {"match_any", "match_except"} -> cond.values
      [] OTHER -> {}

\* the predicate shape applies to the variant: its arm is one the engine answers
\* and the values it names are of the field domain
shape_applies(variant, cond) ==
    /\ cond.arm \in supported_arms(get_payload_field_index(variant))
    /\ \A x \in match_values(cond) : get_value(variant, x).some

\* the keys a match arm names, projected on the field domain
match_keys(variant, cond) == {get_value(variant, x).v : x \in match_values(cond)}

in_range(n, cond) ==
    /\ CASE cond.lo.kind = "unbounded" -> TRUE
         [] cond.lo.kind = "incl" -> n >= cond.lo.n
         [] cond.lo.kind = "excl" -> n > cond.lo.n
    /\ CASE cond.hi.kind = "unbounded" -> TRUE
         [] cond.hi.kind = "incl" -> n <= cond.hi.n
         [] cond.hi.kind = "excl" -> n < cond.hi.n

in_geo(pt, cond) ==
    CASE cond.arm = "geo_bounding_box" ->
            /\ cond.lat_lo <= pt.lat /\ pt.lat <= cond.lat_hi
            /\ cond.lon_lo <= pt.lon /\ pt.lon <= cond.lon_hi
      [] cond.arm = "geo_radius" ->
            (pt.lat - cond.lat) * (pt.lat - cond.lat) + (pt.lon - cond.lon) * (pt.lon - cond.lon)
                <= cond.r * cond.r
      [] cond.arm = "geo_polygon" -> [lat |-> pt.lat, lon |-> pt.lon] \in cond.pts

\* the geohash cells enumerated for a geo query: those its enclosing box touches
geo_query_cells(cond) ==
    CASE cond.arm = "geo_bounding_box" ->
            {[t |-> "cell", cy |-> cy, cx |-> cx] :
                cy \in (cond.lat_lo \div 2)..(cond.lat_hi \div 2),
                cx \in (cond.lon_lo \div 2)..(cond.lon_hi \div 2)}
      [] cond.arm = "geo_radius" ->
            {[t |-> "cell", cy |-> cy, cx |-> cx] :
                cy \in ((cond.lat - cond.r) \div 2)..((cond.lat + cond.r) \div 2),
                cx \in ((cond.lon - cond.r) \div 2)..((cond.lon + cond.r) \div 2)}
      [] cond.arm = "geo_polygon" -> {geo_cell(p.lat, p.lon) : p \in cond.pts}

\* the words of a full-text query
query_words(cond) == IF cond.arm = "match_phrase" THEN cond.phrase ELSE cond.text

\* match-text / match-phrase for which a query without tokens matches nothing
tokens_match_empty_matches_none(lang, stream, is_phrase, words) ==
    LET q == Range(tokenize(lang, words)) IN
    /\ q # {}
    /\ \E p \in {IF is_phrase THEN d.pos - t.pos ELSE 0 : d \in stream, t \in q} :
          \A t \in q : \E d \in stream :
              d.tok = t.tok /\ (is_phrase => d.pos = p + t.pos)

\* a token stream holds every query token (match-text) / holds, for some offset p,
\* every query token t at position p + t.pos (match-phrase); a stop-word of the
\* query takes a position and is not looked for
tokens_match(lang, stream, is_phrase, words) ==
    LET q == Range(tokenize(lang, words)) IN
    IF ~is_phrase
    THEN \A t \in q : \E d \in stream : d.tok = t.tok
    ELSE q = {} \/ \E p \in {d.pos - t.pos : d \in stream, t \in q} :
                      \A t \in q : [tok |-> t.tok, pos |-> p + t.pos] \in stream

\* posting list of a key: the points holding it
posting(ix, k) == {e.id : e \in {x \in ix.inv : x.k = k}}

\* PayloadFieldIndex::filter of the engines
filter(ix, cond) ==
    IF ~shape_applies(ix.variant, cond) THEN None
    ELSE LET engine == get_payload_field_index(ix.variant) IN
         CASE engine = "numeric" -> Some({e.id : e \in {x \in ix.inv : in_range(x.k.n, cond)}})
           [] engine \in {"map", "bool"} ->
                IF cond.arm = "match_except"
                THEN Some({e.id : e \in {x \in ix.inv : x.k \notin match_keys(ix.variant, cond)}})
                ELSE Some(UNION {posting(ix, k) : k \in match_keys(ix.variant, cond)})
           [] engine = "geo" ->
                Some({id \in UNION {posting(ix, c) : c \in geo_query_cells(cond)} :
                        \E i \in 1..Len(ix.fwd[id]) : in_geo(ix.fwd[id][i], cond)})
           [] engine = "text" ->
                Some({id \in DOMAIN ix.vcount : ix.vcount[id] > 0 /\
                        tokens_match(ix.lang, {[tok |-> e.k, pos |-> e.pos] : e \in {x \in ix.inv : x.id = id}},
                                     cond.arm = "match_phrase", query_words(cond))})
           [] engine = "null" -> Some(ix.empties)

\* FieldIndex::filter whose map arms answer except{S} with the points none of whose
\* values is in S
FieldIndex_filter_except_universal(ix, condition) ==
    IF get_payload_field_index(ix.variant) = "map" /\ condition.arm = "match_except"
       /\ shape_applies(ix.variant, condition)
    THEN Some({id \in DOMAIN ix.fwd :
                 /\ ix.fwd[id] # <<>>
                 /\ \A i \in 1..Len(ix.fwd[id]) : ix.fwd[id][i] \notin match_keys(ix.variant, condition)})
    ELSE filter(ix, condition)

\* FieldIndex::filter
FieldIndex_filter(ix, condition) ==
    CASE get_payload_field_index(ix.variant) \in {"numeric", "map", "geo", "bool", "text", "null"} ->
            filter(ix, condition)

\* FullTextIndex::check_payload_match: some text value of the raw payload value,
\* tokenized on its own, matches the query
check_payload_match(lang, is_phrase, payload_value, words) ==
    LET texts == get_values("FullTextIndex", payload_value) IN
    \E i \in 1..Len(texts) :
        tokens_match(lang, Range(tokenize(lang, texts[i].w)), is_phrase, words)

\* FieldIndex::special_check_condition whose phrase arm checks without positions
special_check_condition_phrase_as_text(ix, condition, payload_value) ==
    CASE ix.variant = "FullTextIndex" ->
            (CASE condition.arm = "match_text" ->
                    Some(check_payload_match(ix.lang, FALSE, payload_value, condition.text))
               [] condition.arm = "match_phrase" ->
                    Some(check_payload_match(ix.lang, FALSE, payload_value, condition.phrase))
               [] OTHER -> None)
      [] OTHER -> None

\* FieldIndex::special_check_condition
special_check_condition(ix, condition, payload_value) ==
    CASE ix.variant = "FullTextIndex" ->
            (CASE condition.arm = "match_text" ->
                    Some(check_payload_match(ix.lang, FALSE, payload_value, condition.text))
               [] condition.arm = "match_phrase" ->
                    Some(check_payload_match(ix.lang, TRUE, payload_value, condition.phrase))
               [] OTHER -> None)
      [] OTHER -> None

(***************************************************************************)
(* Cardinality estimation: a triple (min, exp, max) of point counts.       *)
(***************************************************************************)
Estimation(min, exp, max) == [min |-> min, exp |-> exp, max |-> max]
exact(n) == Estimation(n, n, n)

\* the entries of the ordered map, by key and then by point id
RECURSIVE sort_entries(_)
sort_entries(S) ==
    IF S = {} THEN <<>>
    ELSE LET m == CHOOSE e \in S : \A o \in S : e.k.n < o.k.n \/ (e.k.n = o.k.n /\ e.id <= o.id)
         IN <<m>> \o sort_entries(S \ {m})

\* equi-depth histogram over the sorted entries: border keys and count per bucket
RECURSIVE histogram(_)
histogram(sorted) ==
    IF sorted = <<>> THEN <<>>
    ELSE LET n == Min(BucketDepth, Len(sorted)) IN
         <<[lo |-> sorted[1].k.n, hi |-> sorted[n].k.n, count |-> n]>>
            \o histogram(SubSeq(sorted, n + 1, Len(sorted)))

\* a bucket lies inside the range / outside the range
bucket_covered(b, cond) == in_range(b.lo, cond) /\ in_range(b.hi, cond)
bucket_disjoint(b, cond) ==
    \/ cond.lo.kind = "incl" /\ cond.lo.n > b.hi
    \/ cond.lo.kind = "excl" /\ cond.lo.n >= b.hi
    \/ cond.hi.kind = "incl" /\ cond.hi.n < b.lo
    \/ cond.hi.kind = "excl" /\ cond.hi.n <= b.lo

\* share of a partially covered bucket, by linear interpolation over its key span
bucket_interpolated(b, cond) ==
    LET lo == CASE cond.lo.kind = "unbounded" -> b.lo
                [] cond.lo.kind = "incl" -> Max(b.lo, cond.lo.n)
                [] cond.lo.kind = "excl" -> Max(b.lo, cond.lo.n + 1)
        hi == CASE cond.hi.kind = "unbounded" -> b.hi
                [] cond.hi.kind = "incl" -> Min(b.hi, cond.hi.n)
                [] cond.hi.kind = "excl" -> Min(b.hi, cond.hi.n - 1)
    IN (b.count * Max(0, hi - lo + 1)) \div (b.hi - b.lo + 1)

\* histogram estimate of the number of entries in the range: covered buckets count
\* in full, a partially covered one counts 0 at worst and in full at best
RECURSIVE histogram_estimate(_, _)
histogram_estimate(h, cond) ==
    IF h = <<>> THEN exact(0)
    ELSE LET b == Head(h)
             rest == histogram_estimate(Tail(h), cond)
             this == IF bucket_covered(b, cond) THEN exact(b.count)
                     ELSE IF bucket_disjoint(b, cond) THEN exact(0)
                     ELSE Estimation(0, bucket_interpolated(b, cond), b.count)
         IN Estimation(this.min + rest.min, this.exp + rest.exp, this.max + rest.max)

\* range estimate of the numeric index, in points: a point holds at least one of the
\* total entries, so at most total - points of the entries in range are surplus
range_cardinality(ix, cond) ==
    LET v == histogram_estimate(histogram(sort_entries(ix.inv)), cond)
        total == Cardinality(ix.inv)
        points == ix.points_count
        pmin == Max(Min(1, v.min), v.min - (total - points))
        pmax == Min(v.max, points)
            pexp == IF total = 0 THEN 0 ELSE (v.exp * points) \div total
    IN Estimation(pmin, Min(pmax, Max(pexp, pmin)), pmax)

\* sizes of the posting lists of a set of keys
posting_sizes(ix, keys) ==
    LET ks == SetToSeq(keys) IN [i \in 1..Len(ks) |-> Cardinality(posting(ix, ks[i]))]

RECURSIVE MaxSeq(_)
MaxSeq(s) == IF s = <<>> THEN 0 ELSE Max(Head(s), MaxSeq(Tail(s)))

\* any-of{v1..vk} on the map index: max = min(sum |posting|, points),
\* min = max |posting|, exp by inclusion-exclusion under uniform independence
any_of_cardinality(ix, keys) ==
    LET sizes == posting_sizes(ix, keys)
        n == ix.points_count
        k == Len(sizes)
    IN Estimation(MaxSeq(sizes),
                  IF n = 0 \/ k = 0 THEN 0
                  ELSE (Pow(n, k) - ProdSeq([i \in 1..k |-> n - sizes[i]])) \div Pow(n, k - 1),
                  Min(SumSeq(sizes), n))

\* full-text estimate: max = min(|shortest posting|, N), min = 0,
\* exp = N * prod(|posting(ti)| / N)
text_cardinality(ix, words) ==
    LET sizes == posting_sizes(ix, {t.tok : t \in Range(tokenize(ix.lang, words))})
        n == ix.points_count
        k == Len(sizes)
        shortest == CHOOSE m \in {n} \cup Range(sizes) : \A o \in {n} \cup Range(sizes) : m <= o
    IN Estimation(0,
                  IF k = 0 THEN n ELSE IF n = 0 THEN 0 ELSE ProdSeq(sizes) \div Pow(n, k - 1),
                  shortest)

\* geo estimate: occupancy of the enumerated cells, without verification
geo_cardinality(ix, cond) ==
    LET occupancy == SumSeq(posting_sizes(ix, geo_query_cells(cond)))
        pmax == Min(occupancy, ix.points_count)
    IN Estimation(0, pmax, pmax)

\* PayloadFieldIndex::estimate_cardinality whose except arm answers for the named
\* values, not for their complement
estimate_cardinality_except_as_any(ix, cond) ==
    IF ~shape_applies(ix.variant, cond) THEN None
    ELSE LET engine == get_payload_field_index(ix.variant) IN
         CASE engine = "numeric" -> Some(range_cardinality(ix, cond))
           [] engine \in {"map", "bool"} -> Some(any_of_cardinality(ix, match_keys(ix.variant, cond)))
           [] engine = "geo" -> Some(geo_cardinality(ix, cond))
           [] engine = "text" -> Some(text_cardinality(ix, query_words(cond)))
           [] engine = "null" -> Some(exact(Cardinality(ix.empties)))

\* PayloadFieldIndex::estimate_cardinality of the engines
estimate_cardinality(ix, cond) ==
    IF ~shape_applies(ix.variant, cond) THEN None
    ELSE LET engine == get_payload_field_index(ix.variant) IN
         CASE engine = "numeric" -> Some(range_cardinality(ix, cond))
           [] engine \in {"map", "bool"} ->
                IF cond.arm = "match_except"
                THEN Some(Estimation(0,
                                     Max(0, ix.points_count - any_of_cardinality(ix, match_keys(ix.variant, cond)).exp),
                                     ix.points_count))
                ELSE Some(any_of_cardinality(ix, match_keys(ix.variant, cond)))
           [] engine = "geo" -> Some(geo_cardinality(ix, cond))
           [] engine = "text" -> Some(text_cardinality(ix, query_words(cond)))
           [] engine = "null" -> Some(exact(Cardinality(ix.empties)))

\* FieldIndex::estimate_cardinality whose numeric arms answer in values, not in points
FieldIndex_estimate_cardinality_in_values(ix, condition) ==
    IF get_payload_field_index(ix.variant) = "numeric" /\ shape_applies(ix.variant, condition)
    THEN Some(histogram_estimate(histogram(sort_entries(ix.inv)), condition))
    ELSE estimate_cardinality(ix, condition)

\* FieldIndex::estimate_cardinality answered from an index without points
FieldIndex_estimate_cardinality_stale(ix, condition) ==
    estimate_cardinality([empty_index(ix.variant, ix.storage, ix.mutability) EXCEPT !.lang = ix.lang],
                         condition)

\* FieldIndex::estimate_cardinality
FieldIndex_estimate_cardinality(ix, condition) ==
    CASE get_payload_field_index(ix.variant) \in {"numeric", "map", "geo", "bool", "text", "null"} ->
            estimate_cardinality(ix, condition)

(***************************************************************************)
(* NumericFieldIndex: the ordered stream of a numeric index.  A double-    *)
(* ended iterator is the sequence it yields when consumed from the front   *)
(* and the sequence it yields when consumed from the back.                 *)
(***************************************************************************)
\* FieldIndex::as_numeric that exposes the ordered uuid index as an integer index too
as_numeric_uuid_ordered(ix) ==
    CASE ix.variant \in {"IntIndex", "DatetimeIndex", "UuidIndex"} -> Some("IntIndex")
      [] ix.variant = "FloatIndex" -> Some("FloatIndex")
      [] OTHER -> None

\* FieldIndex::as_numeric: the numeric engine a variant exposes, if any
as_numeric(ix) ==
    CASE ix.variant = "IntIndex" -> Some("IntIndex")
      [] ix.variant = "DatetimeIndex" -> Some("IntIndex")
      [] ix.variant = "FloatIndex" -> Some("FloatIndex")
      [] ix.variant \in {"IntMapIndex", "KeywordIndex", "GeoIndex", "BoolIndex", "UuidMapIndex",
                         "UuidIndex", "FullTextIndex", "NullIndex"} -> None

\* OrderValue::from
OrderValue_from(numeric, v) ==
    CASE numeric = "IntIndex" -> [t |-> "Int", v |-> v]
      [] numeric = "FloatIndex" -> [t |-> "Float", v |-> v]

\* NumericIndexInner::get_values: the values of a point, None for a point without
NumericIndexInner_get_values(ix, idx) ==
    IF ix.vcount[idx] = 0 THEN None
    ELSE Some([i \in 1..Len(ix.fwd[idx]) |-> ix.fwd[idx][i].n])

\* NumericFieldIndex::get_ordering_values:
\* index.get_values(idx).into_iter().flatten().map(OrderValue::Int / Float)
NumericFieldIndex_get_ordering_values(ix, idx) ==
    LET numeric == as_numeric(ix).v
        values == NumericIndexInner_get_values(ix, idx)
        flat == IF values.some THEN values.v ELSE <<>>
    IN [i \in 1..Len(flat) |-> OrderValue_from(numeric, flat[i])]

\* the entries of the ordered map walked from its upper end
RECURSIVE sort_entries_desc(_)
sort_entries_desc(S) ==
    IF S = {} THEN <<>>
    ELSE LET m == CHOOSE e \in S : \A o \in S : e.k.n > o.k.n \/ (e.k.n = o.k.n /\ e.id >= o.id)
         IN <<m>> \o sort_entries_desc(S \ {m})

\* stream_range of the numeric engine: the entries of the ordered map inside the range
stream_range(ix, range) ==
    LET inside == {e \in ix.inv : in_range(e.k.n, range)} IN
    [front |-> sort_entries(inside), back |-> sort_entries_desc(inside)]

\* NumericFieldIndex::stream_range whose adaptor is consumed from the front only
NumericFieldIndex_stream_range_front_only(ix, range) ==
    LET numeric == as_numeric(ix).v
        inner == stream_range(ix, range)
        item(e) == [v |-> OrderValue_from(numeric, e.k.n), p |-> e.id]
    IN [front |-> [i \in DOMAIN inner.front |-> item(inner.front[i])],
        back |-> [i \in DOMAIN inner.front |-> item(inner.front[i])]]

\* NumericFieldIndex::stream_range: index.stream_range(range).map(|(v, p)| (OrderValue::from(v), p))
NumericFieldIndex_stream_range(ix, range) ==
    LET numeric == as_numeric(ix).v
        inner == stream_range(ix, range)
        item(e) == [v |-> OrderValue_from(numeric, e.k.n), p |-> e.id]
    IN [front |-> [i \in DOMAIN inner.front |-> item(inner.front[i])],
        back |-> [i \in DOMAIN inner.back |-> item(inner.back[i])]]

(***************************************************************************)
(* FieldIndexBuilder: one variant per (index kind, storage backend).       *)
(***************************************************************************)
BuilderNames == {"IntIndex", "IntMmapIndex", "IntGridstoreIndex",
                 "DatetimeIndex", "DatetimeMmapIndex", "DatetimeGridstoreIndex",
                 "IntMapIndex", "IntMapMmapIndex", "IntMapGridstoreIndex",
                 "KeywordIndex", "KeywordMmapIndex", "KeywordGridstoreIndex",
                 "FloatIndex", "FloatMmapIndex", "FloatGridstoreIndex",
                 "GeoIndex", "GeoMmapIndex", "GeoGridstoreIndex",
                 "FullTextIndex", "FullTextMmapIndex", "FullTextGridstoreIndex",
                 "BoolIndex", "BoolMmapIndex",
                 "UuidIndex", "UuidMmapIndex", "UuidGridstoreIndex",
                 "NullIndex"}

\* FieldIndexBuilder::finalize with the mmap map builders wrapped as numeric indexes
finalize_variant_mmap_apart(name) ==
    CASE name \in {"IntIndex", "IntMmapIndex", "IntGridstoreIndex", "IntMapMmapIndex"} -> "IntIndex"
      [] name \in {"DatetimeIndex", "DatetimeMmapIndex", "DatetimeGridstoreIndex"} -> "DatetimeIndex"
      [] name \in {"IntMapIndex", "IntMapGridstoreIndex"} -> "IntMapIndex"
      [] name \in {"KeywordIndex", "KeywordMmapIndex", "KeywordGridstoreIndex"} -> "KeywordIndex"
      [] name \in {"FloatIndex", "FloatMmapIndex", "FloatGridstoreIndex"} -> "FloatIndex"
      [] name \in {"GeoIndex", "GeoMmapIndex", "GeoGridstoreIndex"} -> "GeoIndex"
      [] name \in {"BoolIndex", "BoolMmapIndex"} -> "BoolIndex"
      [] name \in {"FullTextIndex", "FullTextMmapIndex", "FullTextGridstoreIndex"} -> "FullTextIndex"
      [] name \in {"UuidIndex", "UuidGridstoreIndex"} -> "UuidMapIndex"
      [] name = "UuidMmapIndex" -> "UuidIndex"
      [] name = "NullIndex" -> "NullIndex"

\* the FieldIndex variant each arm of FieldIndexBuilder::finalize wraps its result in
finalize_variant(name) ==
    CASE name \in {"IntIndex", "IntMmapIndex", "IntGridstoreIndex"} -> "IntIndex"
      [] name \in {"DatetimeIndex", "DatetimeMmapIndex", "DatetimeGridstoreIndex"} -> "DatetimeIndex"
      [] name \in {"IntMapIndex", "IntMapMmapIndex", "IntMapGridstoreIndex"} -> "IntMapIndex"
      [] name \in {"KeywordIndex", "KeywordMmapIndex", "KeywordGridstoreIndex"} -> "KeywordIndex"
      [] name \in {"FloatIndex", "FloatMmapIndex", "FloatGridstoreIndex"} -> "FloatIndex"
      [] name \in {"GeoIndex", "GeoMmapIndex", "GeoGridstoreIndex"} -> "GeoIndex"
      [] name \in {"BoolIndex", "BoolMmapIndex"} -> "BoolIndex"
      [] name \in {"FullTextIndex", "FullTextMmapIndex", "FullTextGridstoreIndex"} -> "FullTextIndex"
      [] name \in {"UuidIndex", "UuidMmapIndex", "UuidGridstoreIndex"} -> "UuidMapIndex"
      [] name = "NullIndex" -> "NullIndex"

\* the index kind of a FieldIndexBuilder variant: its name without the storage backend
builder_kind(name) ==
    CASE name \in {"IntIndex", "IntMmapIndex", "IntGridstoreIndex"} -> "Int"
      [] name \in {"DatetimeIndex", "DatetimeMmapIndex", "DatetimeGridstoreIndex"} -> "Datetime"
      [] name \in {"IntMapIndex", "IntMapMmapIndex", "IntMapGridstoreIndex"} -> "IntMap"
      [] name \in {"KeywordIndex", "KeywordMmapIndex", "KeywordGridstoreIndex"} -> "Keyword"
      [] name \in {"FloatIndex", "FloatMmapIndex", "FloatGridstoreIndex"} -> "Float"
      [] name \in {"GeoIndex", "GeoMmapIndex", "GeoGridstoreIndex"} -> "Geo"
      [] name \in {"FullTextIndex", "FullTextMmapIndex", "FullTextGridstoreIndex"} -> "FullText"
      [] name \in {"BoolIndex", "BoolMmapIndex"} -> "Bool"
      [] name \in {"UuidIndex", "UuidMmapIndex", "UuidGridstoreIndex"} -> "Uuid"
      [] name = "NullIndex" -> "Null"

\* the storage backend the builder type of each FieldIndexBuilder variant writes to
builder_storage(name) ==
    CASE name \in {"IntMmapIndex", "DatetimeMmapIndex", "IntMapMmapIndex", "KeywordMmapIndex",
                   "FloatMmapIndex", "GeoMmapIndex", "FullTextMmapIndex", "BoolMmapIndex",
                   "UuidMmapIndex", "NullIndex"} -> "mmap"
      [] name \in {"IntGridstoreIndex", "DatetimeGridstoreIndex", "IntMapGridstoreIndex",
                   "KeywordGridstoreIndex", "FloatGridstoreIndex", "GeoGridstoreIndex",
                   "FullTextGridstoreIndex", "UuidGridstoreIndex"} -> "gridstore"
      [] OTHER -> "rocksdb"

\* the builders of the sealed mmap layouts buffer what they are given and write the
\* index at finalize; the builders of the mutable backends wrap the live structure
builder_buffers(name) ==
    engine_mutability(finalize_variant(name), builder_storage(name)) = "immutable"

\* a builder as constructed: not initialised, nothing added.  ix is the live
\* structure of a wrapping builder (it stays empty in a buffering one), buffer the
\* (point id, values) pairs a buffering builder holds in memory, in arrival order
new_builder(name) ==
    [name |-> name, phase |-> "new", last_id |-> -1,
     ix |-> empty_index(finalize_variant(name), builder_storage(name), "mutable"),
     buffer |-> <<>>]

BOk(b) == [res |-> "Ok", b |-> b]
BErr(kind, b) == [res |-> kind, b |-> b]

\* FieldIndexBuilderTrait::init of the engine builders: once, before anything else
engine_builder_init(b) ==
    IF b.phase # "new" THEN BErr("PreconditionFailed", b)
    ELSE BOk([b EXCEPT !.phase = "init"])

\* FieldIndexBuilderTrait::add_point of the engine builders: after init, ids
\* strictly increasing.  A buffering builder flattens the payload and appends the
\* accepted values of the point to its buffer, with no look at what it holds of the
\* point already; a wrapping builder puts the payload through the add_point of the
\* live structure
engine_builder_add_point(b, id, payload) ==
    IF b.phase # "init" \/ id <= b.last_id THEN BErr("PreconditionFailed", b)
    ELSE IF builder_buffers(b.name)
    THEN BOk([b EXCEPT !.buffer = Append(@, [id |-> id,
                                            values |-> flatten_values(b.ix.variant, payload)]),
                       !.last_id = id])
    ELSE LET r == ValueIndexer_add_point(b.ix, id, payload) IN
         IF r.res # "Ok" THEN BErr(r.res, b)
         ELSE BOk([b EXCEPT !.ix = r.ix, !.last_id = id])

\* the values the buffer holds of a point: those of every pair buffered under the id
RECURSIVE buffered_values(_, _)
buffered_values(buffer, id) ==
    IF buffer = <<>> THEN <<>>
    ELSE (IF Head(buffer).id = id THEN Head(buffer).values ELSE <<>>)
            \o buffered_values(Tail(buffer), id)

\* the sealed file of a buffering builder: the forward data of every buffered point
\* and the posting entries of all of them, those of an ordered (numeric) layout
\* sorted by key and point id; the layout takes deletions only from then on
seal(b) ==
    LET held == [id \in Ids |-> buffered_values(b.buffer, id)]
        kept == [id \in Ids |-> stored_values(b.ix, held[id])]
        entries == UNION {posting_entries(b.ix.variant, id, kept[id]) : id \in Ids}
    IN [b.ix EXCEPT !.fwd = kept,
                    !.inv = IF get_payload_field_index(b.ix.variant) = "numeric"
                            THEN Range(sort_entries(entries)) ELSE entries,
                    !.vcount = [id \in Ids |-> Len(held[id])],
                    !.points_count = Cardinality({id \in Ids : held[id] # <<>>}),
                    !.mutability = "immutable"]

\* FieldIndexBuilderTrait::finalize of the engine builders: a buffering builder
\* sorts and seals what it buffered, a wrapping builder hands its live structure
\* back; the builder is consumed whatever the outcome
engine_builder_finalize(b) ==
    IF b.phase # "init" THEN Err("PreconditionFailed", NoIndex)
    ELSE IF builder_buffers(b.name) THEN Ok(seal(b))
    ELSE Ok(b.ix)

\* FieldIndexBuilder::init whose arms do not reach the engine builder
FieldIndexBuilder_init_lost(b) == BOk([b EXCEPT !.phase = "init"])

\* FieldIndexBuilder::init: every arm hands the call to its engine builder
FieldIndexBuilder_init(b) ==
    CASE b.name \in BuilderNames -> engine_builder_init(b)

\* FieldIndexBuilder::add_point whose mmap arms take the id and drop the payload
FieldIndexBuilder_add_point_mmap_dropped(b, id, payload) ==
    IF builder_storage(b.name) = "mmap" /\ b.phase = "init" /\ id > b.last_id
    THEN BOk([b EXCEPT !.last_id = id])
    ELSE engine_builder_add_point(b, id, payload)

\* FieldIndexBuilder::add_point: every arm hands the call to its engine builder
FieldIndexBuilder_add_point(b, id, payload) ==
    CASE b.name \in BuilderNames -> engine_builder_add_point(b, id, payload)

\* FieldIndexBuilder::finalize: Ok(FieldIndex::<variant>(index.finalize()?))
FieldIndexBuilder_finalize(b) ==
    LET r == engine_builder_finalize(b) IN
    IF r.res # "Ok" THEN r
    ELSE Ok([r.ix EXCEPT !.variant = finalize_variant(b.name)])

(***************************************************************************)
(* Inputs: the payloads written to a point, per index variant.  a1 and a2  *)
(* are values of the field domain, w is a value outside it.  The payload   *)
(* of a point is the list of values found at the field's path: none when   *)
(* the field is absent, one empty array when the field is [].              *)
(***************************************************************************)
Sample(variant) ==
    CASE variant \in {"IntIndex", "IntMapIndex"} ->
            [a1 |-> JInt(1), a2 |-> JInt(2), w |-> JStr(<<"renard">>)]
      [] variant = "FloatIndex" ->
            [a1 |-> JInt(1), a2 |-> JFloat(15), w |-> JStr(<<"renard">>)]
      [] variant = "DatetimeIndex" ->
            [a1 |-> JDate(1), a2 |-> JDate(2), w |-> JStr(<<"renard">>)]
      [] variant \in {"UuidIndex", "UuidMapIndex"} ->
            [a1 |-> JUuid(1), a2 |-> JUuid(2), w |-> JStr(<<"renard">>)]
      [] variant = "KeywordIndex" ->
            [a1 |-> JStr(<<"red">>), a2 |-> JStr(<<"blue">>), w |-> JInt(1)]
      [] variant = "FullTextIndex" ->
            [a1 |-> JStr(<<"Le", "renard">>), a2 |-> JStr(<<"rapide">>), w |-> JInt(1)]
      [] variant = "GeoIndex" ->
            [a1 |-> JGeo(0, 0), a2 |-> JGeo(1, 1), w |-> JInt(1)]
      [] variant = "BoolIndex" ->
            [a1 |-> JBool(TRUE), a2 |-> JBool(FALSE), w |-> JInt(1)]
      [] variant = "NullIndex" ->
            [a1 |-> JInt(1), a2 |-> JStr(<<"renard">>), w |-> JNull]

\* the documents of the full-text scenario, for an index with the english list
EnglishSample ==
    [a1 |-> JStr(<<"The", "quick", "brown", "fox">>), a2 |-> JStr(<<"A", "quick", "red", "fox">>),
     w |-> JInt(1)]

sample_of(ix) ==
    IF ix.variant = "FullTextIndex" /\ ix.lang = "english" THEN EnglishSample ELSE Sample(ix.variant)

Payloads(ix) ==
    LET s == sample_of(ix) IN
    { <<>>, <<JArray(<<>>)>>, <<s.a1>>, <<s.a2>>, <<JArray(<<s.a1, s.a2>>)>>,
      <<JArray(<<s.a1, s.w, s.a1>>)>>, <<JArray(<<JArray(<<s.a2>>), s.a1>>), s.a2>> }

\* the conditions put to an index of the variant: the arms its engine answers, with
\* values inside and outside the field domain, and one condition of every other arm
Conds(ix) ==
    LET s == sample_of(ix)
        engine == get_payload_field_index(ix.variant)
    IN (CASE engine = "numeric" ->
                { CRange(Incl(1), Incl(1)), CRange(Excl(1), Unbounded), CRange(Unbounded, Excl(2)),
                  CRange(Incl(2), Incl(12)), CRange(Incl(11), Incl(15)), CRange(Unbounded, Unbounded) }
          [] engine \in {"map", "bool"} ->
                { CMatchValue(s.a1), CMatchValue(s.w), CMatchAny({s.a1, s.a2}), CMatchAny({}),
                  CMatchExcept({s.a1}), CMatchExcept({s.a1, s.a2}) }
          [] engine = "text" ->
                IF ix.lang = "english"
                THEN { CMatchText(<<"quick", "fox">>), CMatchText(<<"brown">>), CMatchText(<<"the">>),
                       CMatchPhrase(<<"quick", "fox">>), CMatchPhrase(<<"the", "quick", "brown">>),
                       CMatchPhrase(<<"red", "fox">>) }
                ELSE { CMatchText(<<"renard", "rapide">>), CMatchText(<<"renard">>), CMatchText(<<"le">>),
                       CMatchPhrase(<<"renard", "rapide">>), CMatchPhrase(<<"Le", "renard">>),
                       CMatchPhrase(<<"rapide", "renard">>) }
          [] engine = "geo" ->
                { CGeoBoundingBox(0, 0, 0, 0), CGeoBoundingBox(0, 1, 0, 1), CGeoRadius(0, 0, 1),
                  CGeoPolygon({[lat |-> 1, lon |-> 1]}) }
          [] engine = "null" -> {})
       \cup { CRange(Incl(1), Unbounded), CMatchValue(JBool(TRUE)), CMatchAny({JStr(<<"red">>)}),
              CMatchExcept({JInt(1)}), CMatchText(<<"rapide">>), CMatchPhrase(<<"rapide">>),
              CGeoBoundingBox(0, 2, 0, 2), CGeoRadius(1, 1, 1), CGeoPolygon({[lat |-> 0, lon |-> 0]}),
              CIsNull, CIsEmpty }

(***************************************************************************)
(* The hardware counter (spec 4.9) and QuantizedMultiQueryScorer            *)
(* (vector_storage/quantized/quantized_multi_query_scorer.rs).             *)
(***************************************************************************)
\* HardwareCounterCell: additive accumulators; what is added to vector_io_read is
\* multiplied by vector_io_read_multiplier
HardwareCounterCell(cpu, payload_index_io_read, payload_index_io_write, vector_io_read, multiplier) ==
    [cpu |-> cpu, payload_index_io_read |-> payload_index_io_read,
     payload_index_io_write |-> payload_index_io_write,
     vector_io_read |-> vector_io_read, vector_io_read_multiplier |-> multiplier]

\* the counters a caller hands in: new ones and ones that were charged before, with
\* the multiplier the caller left in them
Multipliers == {0, 1, 3}
Counters ==
    {HardwareCounterCell(n, n, n, n, m) : n \in {0, 5}, m \in Multipliers}

set_vector_io_read_multiplier(hw, multiplier) == [hw EXCEPT !.vector_io_read_multiplier = multiplier]
vector_io_read_incr_delta(hw, delta) == [hw EXCEPT !.vector_io_read = @ + delta * hw.vector_io_read_multiplier]
cpu_incr_delta(hw, delta) == [hw EXCEPT !.cpu = @ + delta]

\* size_of::<MultivectorOffset>(): two u32, start and count
SIZE_OF_MULTIVECTOR_OFFSET == 8

\* the quantized multivector storages of the model: on disk or not, a size of one
\* quantized vector, and per point the number of its sub-vectors; the offsets follow
Storages ==
    {[is_on_disk |-> d, quantized_vector_size |-> q, counts |-> c] :
        d \in BOOLEAN, q \in {1, 4}, c \in [Ids -> 0..MaxSubVectors]}

\* MultivectorOffsets::get_offset
get_offset(storage, idx) ==
    [start |-> SumSeq([i \in 1..idx |-> storage.counts[i - 1]]), count |-> storage.counts[idx]]

\* EncodedVectors::score_point of the storage: a function of the query and of the
\* stored sub-vectors; it charges the cpu counter
score_point(storage, query, idx, hw) ==
    [score |-> query * get_offset(storage, idx).count + get_offset(storage, idx).start,
     hw |-> cpu_incr_delta(hw, get_offset(storage, idx).count)]

\* EncodedVectors::score_internal of the storage
score_internal(storage, point_a, point_b, hw) ==
    [score |-> get_offset(storage, point_a).count * get_offset(storage, point_b).count,
     hw |-> cpu_incr_delta(hw, 1)]

NoScorer == [made |-> FALSE]

\* new_multi that leaves the multiplier of the counter as the caller set it
QuantizedMultiQueryScorer_new_multi_keeps_multiplier(raw_query, storage, hardware_counter) ==
    [made |-> TRUE, query |-> raw_query, storage |-> storage,
     hardware_counter |-> hardware_counter,
     given |-> hardware_counter, calls |-> <<>>]

\* QuantizedMultiQueryScorer::new_multi; given and calls are kept for reference: the
\* counter as it was handed in, and the points scored with score_stored
QuantizedMultiQueryScorer_new_multi(raw_query, storage, hardware_counter) ==
    [made |-> TRUE, query |-> raw_query, storage |-> storage,
     hardware_counter |->
        set_vector_io_read_multiplier(hardware_counter, IF storage.is_on_disk THEN 1 ELSE 0),
     given |-> hardware_counter, calls |-> <<>>]

\* QuantizedMultiQueryScorer::score_stored
QuantizedMultiQueryScorer_score_stored(sc, idx) ==
    LET multi_vector_offset == get_offset(sc.storage, idx)
        sub_vectors_count == multi_vector_offset.count
        charged == vector_io_read_incr_delta(sc.hardware_counter,
                        SIZE_OF_MULTIVECTOR_OFFSET + sc.storage.quantized_vector_size * sub_vectors_count)
        r == score_point(sc.storage, sc.query, idx, charged)
    IN [score |-> r.score,
        sc |-> [sc EXCEPT !.hardware_counter = r.hw, !.calls = Append(@, idx)]]

\* QuantizedMultiQueryScorer::score_internal
QuantizedMultiQueryScorer_score_internal(sc, point_a, point_b) ==
    LET r == score_internal(sc.storage, point_a, point_b, sc.hardware_counter) IN
    [score |-> r.score, sc |-> [sc EXCEPT !.hardware_counter = r.hw]]

(***************************************************************************)
(* The REST response helpers (src/actix/helpers.rs).                       *)
(***************************************************************************)
StorageErrorKinds ==
    {"BadInput", "NotFound", "ServiceError", "BadRequest", "Locked", "Timeout",
     "AlreadyExists", "ChecksumMismatch", "Forbidden", "PreconditionFailed",
     "InferenceError", "RateLimitExceeded", "ShardUnavailable"}

\* std::time::Duration: whole seconds and nanoseconds below one second
Duration(secs, nanos) == [secs |-> secs, nanos |-> nanos]

\* retry_after of RateLimitExceeded
RetryAfters ==
    {Duration(0, 200000000), Duration(1, 0), Duration(1, 10), Duration(1, 500000000),
     Duration(100, 3000), Duration(8388609, 500000000), Duration(16777217, 0),
     Duration(16777219, 0)}

(***************************************************************************)
(* f32 arithmetic of Duration::as_secs_f32,                                *)
(*     (secs as f32) + (nanos as f32) / (1_000_000_000 as f32),            *)
(* each operation rounded to the nearest f32 (24-bit significand), ties    *)
(* to even.  A non-negative f32 is held as num / 2^p.                      *)
(***************************************************************************)
RECURSIVE floor_log2(_)
floor_log2(n) == IF n < 2 THEN 0 ELSE 1 + floor_log2(n \div 2)

\* n / d rounded to the nearest integer, ties to even
round_half_even_div(n, d) ==
    LET q == n \div d
        r == n % d
    IN IF 2 * r > d \/ (2 * r = d /\ q % 2 = 1) THEN q + 1 ELSE q

\* an unsigned integer as f32: exact below 2^24, else rounded to 24 significant bits
int_as_f32(n) ==
    IF n < Pow(2, 24) THEN n
    ELSE LET sh == floor_log2(n) - 23 IN round_half_even_div(n, Pow(2, sh)) * Pow(2, sh)

\* 10^9 = 2^9 * 5^9
FIVE_POW_9 == 1953125

\* mant / 5^9 scaled by doublings until the quotient has 24 significant bits
RECURSIVE scale_up(_, _, _)
scale_up(q, r, j) ==
    IF q >= Pow(2, 23) THEN [q |-> q, r |-> r, j |-> j]
    ELSE scale_up(2 * q + ((2 * r) \div FIVE_POW_9), (2 * r) % FIVE_POW_9, j + 1)

\* the f32 quotient n_f / 1e9 of an f32 integer n_f below 2^30, as num / 2^p
f32_div_1e9(n_f) ==
    IF n_f = 0 THEN [num |-> 0, p |-> 0]
    ELSE LET sh == Max(0, floor_log2(n_f) - 23)
             mant == n_f \div Pow(2, sh)
             s == scale_up(mant \div FIVE_POW_9, mant % FIVE_POW_9, 0)
         IN [num |-> IF 2 * s.r > FIVE_POW_9 THEN s.q + 1 ELSE s.q, p |-> 9 + s.j - sh]

\* the f32 sum of an f32 integer s_f and an f32 fraction x <= 1, as num / 2^p
f32_add(s_f, x) ==
    IF s_f = 0 THEN x
    ELSE LET e == floor_log2(s_f) IN
         IF e >= 24
         THEN \* the spacing of f32 is 2 or more here: x counts only as a tie
              [num |-> IF e = 24 /\ x.num = Pow(2, Min(x.p, 24)) /\ x.p <= 24 /\ (s_f \div 2) % 2 = 1
                       THEN s_f + 2 ELSE s_f,
               p |-> 0]
         ELSE \* the exact sum is (s_f * 2^u + x.num / 2^d) / 2^u; it is rounded to a
              \* multiple of 1 / 2^u, a tie to the even significand
              LET u == 23 - e
                  d == x.p - u
                  q == IF d >= 26 THEN 0 ELSE x.num \div Pow(2, d)
                  r == IF d >= 26 THEN 0 ELSE x.num % Pow(2, d)
                  half == IF d >= 26 \/ d = 0 THEN 0 ELSE Pow(2, d - 1)
                  sig == s_f * Pow(2, u) + q
                  up == d > 0 /\ d < 26 /\ (r > half \/ (r = half /\ sig % 2 = 1))
              IN [num |-> IF up THEN sig + 1 ELSE sig, p |-> u]

\* Duration::as_secs_f32
as_secs_f32(duration) ==
    f32_add(int_as_f32(duration.secs), f32_div_1e9(int_as_f32(duration.nanos)))

\* f32::ceil() as u32, for values below 2^31
ceil_as_u32(x) ==
    IF x.p > 30 THEN (IF x.num > 0 THEN 1 ELSE 0)
    ELSE (x.num + Pow(2, x.p) - 1) \div Pow(2, x.p)

\* the StorageError values: a kind and, for RateLimitExceeded, an optional retry_after
\* (an Option is a sequence of no or one element)
StorageErrors ==
    {[kind |-> k, retry_after |-> <<>>] : k \in StorageErrorKinds}
        \cup {[kind |-> "RateLimitExceeded", retry_after |-> <<d>>] : d \in RetryAfters}

\* Result<T, StorageError>
OkResult == [ok |-> TRUE]
ErrResult(err) == [ok |-> FALSE, err |-> err]
\* what the future of a handler may return
FutureResults == {OkResult} \cup {ErrResult(err) : err \in StorageErrors}

\* Result<Option<T>, StorageError>
OkSome == [ok |-> TRUE, some |-> TRUE]
OkNone == [ok |-> TRUE, some |-> FALSE]
\* Result::map(Some)
map_some(res) == IF res.ok THEN OkSome ELSE res

\* HttpError::status_code with PreconditionFailed answered as 412
status_code_precondition_412(err) ==
    CASE err.kind \in {"BadInput", "BadRequest", "ChecksumMismatch", "InferenceError"} -> 400
      [] err.kind = "NotFound" -> 404
      [] err.kind = "ServiceError" -> 500
      [] err.kind = "PreconditionFailed" -> 412
      [] err.kind \in {"Locked", "Forbidden"} -> 403
      [] err.kind = "Timeout" -> 408
      [] err.kind = "AlreadyExists" -> 409
      [] err.kind = "RateLimitExceeded" -> 429
      [] err.kind = "ShardUnavailable" -> 503

\* HttpError::status_code
status_code(err) ==
    CASE err.kind = "BadInput" -> 400
      [] err.kind = "NotFound" -> 404
      [] err.kind = "ServiceError" -> 500
      [] err.kind = "BadRequest" -> 400
      [] err.kind = "Locked" -> 403
      [] err.kind = "Timeout" -> 408
      [] err.kind = "AlreadyExists" -> 409
      [] err.kind = "ChecksumMismatch" -> 400
      [] err.kind = "Forbidden" -> 403
      [] err.kind = "PreconditionFailed" -> 500
      [] err.kind = "InferenceError" -> 400
      [] err.kind = "RateLimitExceeded" -> 429
      [] err.kind = "ShardUnavailable" -> 503

\* HttpError::headers with the seconds of retry_after cut to whole seconds
headers_truncated(err) ==
    IF err.kind = "RateLimitExceeded" /\ err.retry_after # <<>>
    THEN [retry_after |-> <<err.retry_after[1].secs>>]
    ELSE [retry_after |-> <<>>]

\* HttpError::headers: Retry-After is retry_after.as_secs_f32().ceil() as u32
headers(err) ==
    IF err.kind = "RateLimitExceeded" /\ err.retry_after # <<>>
    THEN [retry_after |-> <<ceil_as_u32(as_secs_f32(err.retry_after[1]))>>]
    ELSE [retry_after |-> <<>>]

\* log_service_error: only a ServiceError is written to the error log
log_service_error(logs, err) == IF err.kind = "ServiceError" THEN logs + 1 ELSE logs

\* accepted_response
accepted_response ==
    [status |-> 202, result |-> "None", api_status |-> "Accepted", headers |-> [retry_after |-> <<>>]]

\* process_response_error: the error is logged and answered with its status code
process_response_error(err, logs) ==
    [response |-> [status |-> status_code(err), result |-> "None", api_status |-> "Error",
                   headers |-> headers(err)],
     logs |-> log_service_error(logs, err)]

\* process_response
process_response(res, logs) ==
    IF res.ok
    THEN [response |-> [status |-> 200, result |-> "Some", api_status |-> "Ok",
                        headers |-> [retry_after |-> <<>>]],
          logs |-> logs]
    ELSE process_response_error(res.err, logs)

\* time_impl that answers a missing result like a present one
time_impl_none_as_some(fut, logs) == process_response(fut, logs)

\* time_impl: future.await.transpose() is None exactly for Ok(None)
time_impl(fut, logs) ==
    IF fut.ok /\ ~fut.some
    THEN [response |-> accepted_response, logs |-> logs]
    ELSE process_response(fut, logs)

\* time: the handler awaits the future itself
time(res, logs) == time_impl(map_some(res), logs)

\* time_or_accept's async block where a join error is answered as Ok(None)
time_or_accept_future_join_error_accepted(wait, task, result) ==
    IF wait /\ task # "panicked" THEN map_some(result[1]) ELSE OkNone

\* the value of the async block of time_or_accept once the task is spawned: with wait
\* the result of the joined task (a task that panicked answers as a service error),
\* without wait Ok(None), whatever the task does
time_or_accept_future(wait, task, result) ==
    IF wait
    THEN IF task = "panicked" THEN ErrResult([kind |-> "ServiceError", retry_after |-> <<>>])
         ELSE map_some(result[1])
    ELSE OkNone

\* the response future is dropped (the client went away): a future awaited inside it
\* is dropped with it, and so is the JoinHandle, which aborts the spawned task
drop_response_future_aborts_task(h) ==
    [h EXCEPT !.pc = "dropped",
              !.inline = IF @ = "pending" THEN "cancelled" ELSE @,
              !.task = IF @ = "running" THEN "cancelled" ELSE @]

\* the response future is dropped (the client went away): a future awaited inside it
\* is dropped with it at its await point; a spawned task is detached and goes on
drop_response_future(h) ==
    [h EXCEPT !.pc = "dropped", !.inline = IF @ = "pending" THEN "cancelled" ELSE @]

\* inline is the future time() awaits itself, task the one time_or_accept spawned;
\* service_errors counts the ServiceError the futures returned, join_errors the
\* join errors of awaited tasks, logs the entries of the error log
HttpIdle ==
    [pc |-> "idle", helper |-> "none", wait |-> FALSE, task |-> "none", inline |-> "none",
     service_errors |-> 0, join_errors |-> 0, result |-> <<>>,
     response |-> <<>>, logs |-> 0, served |-> 0]

(***************************************************************************)
(* The gRPC auth middleware (src/tonic/auth.rs).                           *)
(***************************************************************************)
\* URI paths, as their segments
QdrantHealthCheck == <<"qdrant.Qdrant", "HealthCheck">>
GrpcHealthCheck == <<"grpc.health.v1.Health", "Check">>
Paths ==
    {QdrantHealthCheck, GrpcHealthCheck,
     <<"qdrant.Qdrant", "HealthCheck", "">>, <<"qdrant.Qdrant", "HealthCheck", "x">>,
     <<"qdrant.Qdrant">>, <<"qdrant.Qdrant", "healthcheck">>, <<"qdrant.Qdrant", "Check">>,
     <<"grpc.health.v1.Health", "Check", "x">>, <<"grpc.health.v1.Health", "Watch">>,
     <<"grpc.health.v1.Health", "HealthCheck">>, <<"v1", "grpc.health.v1.Health", "Check">>,
     <<"qdrant.Points", "Upsert">>}
Uris == [path : Paths, query : {"", "api-key=rw"}]
\* the api-key header of a request
ApiKeys == {"none", "rw", "ro", "wrong"}

\* req.uri().path()
uri_path(uri) == uri.path

\* what auth_keys.validate_request may return for the headers of a request: Ok with
\* an Access and an inference token, or one of the three AuthError
validate_request(key) ==
    CASE key = "rw" -> {[ok |-> TRUE, access |-> "full", token |-> t] : t \in {"None", "Some"}}
      [] key = "ro" -> {[ok |-> TRUE, access |-> "read_only", token |-> t] : t \in {"None", "Some"}}
      [] OTHER -> {[ok |-> FALSE, err |-> e] : e \in {"Unauthorized", "Forbidden", "StorageError"}}

\* the map_err of check with every AuthError answered as unauthenticated
auth_status_all_unauthenticated(err) == "unauthenticated"

\* the map_err of check
auth_status(err) ==
    CASE err = "Unauthorized" -> "unauthenticated"
      [] err = "Forbidden" -> "permission_denied"
      [] err = "StorageError" -> "from_storage_error"

\* a request: its URI, its api-key header, and the Access and InferenceToken extensions
Request(uri, key) == [uri |-> uri, key |-> key, access |-> "absent", token |-> "absent"]

\* check with the health-check paths taken as prefixes
check_health_prefix(req, validated) ==
    LET path == uri_path(req.uri) IN
    IF Len(path) >= 2 /\ SubSeq(path, 1, 2) \in {QdrantHealthCheck, GrpcHealthCheck}
    THEN [ok |-> TRUE, req |-> [req EXCEPT !.access = "full", !.token = "None"], validate_calls |-> 0,
          previous |-> <<>>, previous_token |-> <<>>]
    ELSE IF validated.ok
         THEN [ok |-> TRUE, req |-> [req EXCEPT !.access = validated.access, !.token = validated.token],
               validate_calls |-> 1, previous |-> <<req.access>>, previous_token |-> <<req.token>>]
         ELSE [ok |-> FALSE, status |-> auth_status(validated.err), req |-> req, validate_calls |-> 1,
               previous |-> <<>>, previous_token |-> <<>>]

\* check; validated is what validate_request returns if it is called.  previous and
\* previous_token are what the two inserts returned, if they were made
check(req, validated) ==
    LET path == uri_path(req.uri) IN
    IF path = QdrantHealthCheck \/ path = GrpcHealthCheck
    THEN [ok |-> TRUE, req |-> [req EXCEPT !.access = "full", !.token = "None"], validate_calls |-> 0,
          previous |-> <<>>, previous_token |-> <<>>]
    ELSE IF validated.ok
         THEN [ok |-> TRUE, req |-> [req EXCEPT !.access = validated.access, !.token = validated.token],
               validate_calls |-> 1, previous |-> <<req.access>>, previous_token |-> <<req.token>>]
         ELSE [ok |-> FALSE, status |-> auth_status(validated.err), req |-> req, validate_calls |-> 1,
               previous |-> <<>>, previous_token |-> <<>>]

\* the two debug_assert! of check: both inserts found nothing
debug_asserts_hold(checked) ==
    /\ checked.previous \in {<<>>, <<"absent">>}
    /\ checked.previous_token \in {<<>>, <<"absent">>}

\* extract_access that reads the Access and leaves it in the request
extract_access_kept(req) ==
    [access |-> IF req.access = "absent" THEN "full" ELSE req.access, req |-> req]

\* extract_access: extensions_mut().remove::<Access>().unwrap_or_else(full)
extract_access(req) ==
    [access |-> IF req.access = "absent" THEN "full" ELSE req.access,
     req |-> [req EXCEPT !.access = "absent"]]

\* the AuthMiddleware layers a server stacks around its service, and the number of
\* extract_access calls a handler makes
MaxLayers == 2
MaxExtracts == 2

GrpcIdle == [pc |-> "idle"]

(***************************************************************************)
(* The state machine.                                                      *)
(***************************************************************************)
\* an empty appendable index of some variant, to be filled point by point; the
\* full-text index with the french or with the english stop-word list
InitIndex ==
    /\ payloads = [id \in Ids |-> NoPayload]
    /\ last = [op |-> "none"]
    /\ disk = NoDisk
    /\ flushers = <<>>
    /\ scorer = NoScorer
    /\ http = HttpIdle
    /\ grpc = GrpcIdle
    /\ builder = NoBuilder
    /\ \/ \E variant \in Variants : index = empty_index(variant, "gridstore", "mutable")
       \/ index = [empty_index("FullTextIndex", "gridstore", "mutable") EXCEPT !.lang = "english"]

\* a new builder of some variant and storage backend
InitBuilder ==
    /\ payloads = [id \in Ids |-> NoPayload]
    /\ last = [op |-> "none"]
    /\ disk = NoDisk
    /\ flushers = <<>>
    /\ scorer = NoScorer
    /\ http = HttpIdle
    /\ grpc = GrpcIdle
    /\ index = NoIndex
    /\ \E name \in BuilderNames : builder = new_builder(name)

Init == InitBuilder \/ InitIndex

\* builder.init()
BuilderInit ==
    /\ builder # NoBuilder
    /\ LET r == FieldIndexBuilder_init(builder) IN
       /\ builder' = r.b
       /\ last' = [op |-> "builder_init", res |-> r.res, phase |-> builder.phase]
    /\ UNCHANGED <<index, payloads, disk, flushers, scorer, http, grpc>>

\* builder.add_point(id, payload, hw_counter)
BuilderAddPoint ==
    /\ builder # NoBuilder
    /\ \E id \in Ids : \E payload \in Payloads(builder.ix) :
          LET r == FieldIndexBuilder_add_point(builder, id, payload) IN
          /\ builder' = r.b
          /\ payloads' = IF r.res = "Ok" THEN [payloads EXCEPT ![id] = Payload(payload)] ELSE payloads
          /\ last' = [op |-> "builder_add_point", res |-> r.res, phase |-> builder.phase,
                      ordered |-> id > builder.last_id]
    /\ UNCHANGED <<index, disk, flushers, scorer, http, grpc>>

\* builder.finalize(): the builder is consumed
BuilderFinalize ==
    /\ builder # NoBuilder
    /\ LET r == FieldIndexBuilder_finalize(builder) IN
       /\ index' = r.ix
       /\ last' = [op |-> "builder_finalize", res |-> r.res, phase |-> builder.phase,
                   name |-> builder.name]
    /\ builder' = NoBuilder
    /\ UNCHANGED <<payloads, disk, flushers, scorer, http, grpc>>

\* index.add_point(id, payload, hw_counter); a call that fails after its pre-clear
\* leaves the point without values.  The closures handed out before see a mutation.
AddPoint ==
    /\ index # NoIndex
    /\ \E id \in Ids : \E payload \in Payloads(index) :
          LET r == FieldIndex_add_point(index, id, payload) IN
          /\ index' = r.ix
          /\ payloads' = [payloads EXCEPT ![id] = IF r.res = "Ok" THEN Payload(payload) ELSE NoPayload]
          /\ last' = [op |-> "add_point", res |-> r.res,
                      had |-> FieldIndex_values_count(index, id) > 0]
    /\ flushers' = [i \in DOMAIN flushers |-> [flushers[i] EXCEPT !.stale = TRUE]]
    /\ UNCHANGED <<builder, disk, scorer, http, grpc>>

\* index.remove_point(id)
RemovePoint ==
    /\ index # NoIndex
    /\ \E id \in Ids :
          LET r == FieldIndex_remove_point(index, id) IN
          /\ index' = r.ix
          /\ payloads' = IF r.res = "Ok" THEN [payloads EXCEPT ![id] = NoPayload] ELSE payloads
          /\ last' = [op |-> "remove_point", res |-> r.res,
                      had |-> FieldIndex_values_count(index, id) > 0]
    /\ flushers' = [i \in DOMAIN flushers |-> [flushers[i] EXCEPT !.stale = TRUE]]
    /\ UNCHANGED <<builder, disk, scorer, http, grpc>>

\* index.filter(condition, hw_counter), collected
Filter ==
    /\ index # NoIndex
    /\ \E cond \in Conds(index) :
          last' = [op |-> "filter", out |-> FieldIndex_filter(index, cond)]
    /\ UNCHANGED <<builder, index, payloads, disk, flushers, scorer, http, grpc>>

\* index.as_numeric() and, on a numeric index, stream_range(range) consumed from the
\* front and from the back
StreamRange ==
    /\ index # NoIndex
    /\ \/ /\ ~as_numeric(index).some
          /\ last' = [op |-> "as_numeric", out |-> None]
       \/ /\ as_numeric(index).some
          /\ \E range \in {c \in Conds(index) : c.arm = "range"} :
                last' = [op |-> "stream_range", range |-> range,
                         out |-> NumericFieldIndex_stream_range(index, range)]
    /\ UNCHANGED <<builder, index, payloads, disk, flushers, scorer, http, grpc>>

\* index.as_numeric() and, on a numeric index, get_ordering_values(idx)
GetOrderingValues ==
    /\ index # NoIndex /\ as_numeric(index).some
    /\ \E idx \in Ids :
          last' = [op |-> "get_ordering_values", idx |-> idx,
                   out |-> NumericFieldIndex_get_ordering_values(index, idx)]
    /\ UNCHANGED <<builder, index, payloads, disk, flushers, scorer, http, grpc>>

\* index.estimate_cardinality(condition, hw_counter)
EstimateCardinality ==
    /\ index # NoIndex
    /\ \E cond \in Conds(index) :
          last' = [op |-> "estimate_cardinality", out |-> FieldIndex_estimate_cardinality(index, cond)]
    /\ UNCHANGED <<builder, index, payloads, disk, flushers, scorer, http, grpc>>

\* index.special_check_condition(condition, payload_value, hw_counter) on a raw
\* payload value of a point
SpecialCheckCondition ==
    /\ index # NoIndex
    /\ \E cond \in Conds(index) : \E id \in Ids :
          /\ payloads[id].present
          /\ \E i \in 1..Len(payloads[id].p) :
                last' = [op |-> "special_check_condition", cond |-> cond, value |-> payloads[id].p[i],
                         out |-> special_check_condition(index, cond, payloads[id].p[i])]
    /\ UNCHANGED <<builder, index, payloads, disk, flushers, scorer, http, grpc>>

\* index.count_indexed_points()
CountIndexedPoints ==
    /\ index # NoIndex
    /\ last' = [op |-> "count_indexed_points", out |-> FieldIndex_count_indexed_points(index)]
    /\ UNCHANGED <<builder, index, payloads, disk, flushers, scorer, http, grpc>>

\* index.values_count(point_id)
ValuesCount ==
    /\ index # NoIndex
    /\ \E id \in Ids : last' = [op |-> "values_count", out |-> FieldIndex_values_count(index, id)]
    /\ UNCHANGED <<builder, index, payloads, disk, flushers, scorer, http, grpc>>

\* index.values_is_empty(point_id)
ValuesIsEmpty ==
    /\ index # NoIndex
    /\ \E id \in Ids : last' = [op |-> "values_is_empty", out |-> FieldIndex_values_is_empty(index, id)]
    /\ UNCHANGED <<builder, index, payloads, disk, flushers, scorer, http, grpc>>

\* index.flusher(): a closure is handed out
Flusher ==
    /\ index # NoIndex
    /\ Len(flushers) < MaxFlushers
    /\ flushers' = Append(flushers, FieldIndex_flusher(index))
    /\ last' = [op |-> "flusher", after |-> last.op]
    /\ UNCHANGED <<builder, index, payloads, disk, scorer, http, grpc>>

\* one of the closures handed out is invoked, in any order
Flush ==
    /\ index # NoIndex
    /\ \E i \in DOMAIN flushers :
          /\ disk' = run_flusher(flushers[i], index, payloads, disk)
          /\ flushers' = [j \in 1..(Len(flushers) - 1) |-> IF j < i THEN flushers[j] ELSE flushers[j + 1]]
          /\ last' = [op |-> "flush", res |-> "Ok", stale |-> flushers[i].stale, after |-> last.op]
    /\ UNCHANGED <<builder, index, payloads, scorer, http, grpc>>

\* the index is dropped and opened again over its files: load() on a new index of the
\* same variant; the closures of the dropped index are gone
Reopen ==
    /\ index # NoIndex
    /\ LET r == FieldIndex_load([empty_index(index.variant, index.storage, index.mutability)
                                    EXCEPT !.lang = index.lang], disk) IN
       /\ index' = r.ix
       /\ payloads' = IF r.loaded THEN disk.given ELSE [id \in Ids |-> NoPayload]
       /\ last' = [op |-> "load", res |-> r.loaded, after |-> last.op]
    /\ flushers' = <<>>
    /\ UNCHANGED <<builder, disk, scorer, http, grpc>>

\* index.cleanup(): the index is consumed and its files are removed.  The closures
\* handed out before are left as they are; what one of them does when it is invoked
\* after the cleanup is up to the engines, and none is invoked here
Cleanup ==
    /\ index # NoIndex
    /\ LET r == FieldIndex_cleanup(index, disk) IN
       /\ disk' = r.disk
       /\ last' = [op |-> "cleanup", res |-> r.res, after |-> last.op]
    /\ index' = NoIndex
    /\ payloads' = [id \in Ids |-> NoPayload]
    /\ UNCHANGED <<builder, flushers, scorer, http, grpc>>

Next ==
    \/ BuilderInit
    \/ BuilderAddPoint
    \/ BuilderFinalize
    \/ AddPoint
    \/ RemovePoint
    \/ Filter
    \/ EstimateCardinality
    \/ SpecialCheckCondition
    \/ CountIndexedPoints
    \/ ValuesCount
    \/ ValuesIsEmpty
    \/ StreamRange
    \/ GetOrderingValues
    \/ Cleanup

Spec == Init /\ [][Next]_vars

\* the incremental path alone: an index filled by add_point, never built
NextIndex ==
    \/ AddPoint
    \/ RemovePoint
    \/ Filter
    \/ EstimateCardinality
    \/ SpecialCheckCondition
    \/ CountIndexedPoints
    \/ ValuesCount
    \/ ValuesIsEmpty
    \/ StreamRange
    \/ GetOrderingValues
    \/ Cleanup

SpecIndex == InitIndex /\ [][NextIndex]_vars

\* the persistence path: an index that is mutated, flushed and reopened
(***************************************************************************)
(* A scorer: made once over a storage, then asked for scores.              *)
(***************************************************************************)
\* QuantizedMultiQueryScorer::new_multi(raw_query, storage, config, hardware_counter)
ScorerNew ==
    /\ index = NoIndex
    /\ ~scorer.made
    /\ \E raw_query \in 1..2 : \E storage \in Storages : \E hw \in Counters :
          scorer' = QuantizedMultiQueryScorer_new_multi(raw_query, storage, hw)
    /\ last' = [op |-> "new_multi"]
    /\ UNCHANGED <<builder, index, payloads, disk, flushers, http, grpc>>

\* scorer.score_stored(idx)
ScoreStored ==
    /\ scorer.made
    /\ Len(scorer.calls) < MaxCalls
    /\ \E idx \in Ids :
          LET r == QuantizedMultiQueryScorer_score_stored(scorer, idx) IN
          /\ scorer' = r.sc
          /\ last' = [op |-> "score_stored", idx |-> idx, score |-> r.score]
    /\ UNCHANGED <<builder, index, payloads, disk, flushers, http, grpc>>

\* scorer.score_internal(point_a, point_b)
ScoreInternal ==
    /\ scorer.made
    /\ scorer.hardware_counter.cpu < scorer.given.cpu + MaxCalls
    /\ \E point_a \in Ids : \E point_b \in Ids :
          LET r == QuantizedMultiQueryScorer_score_internal(scorer, point_a, point_b) IN
          /\ scorer' = r.sc
          /\ last' = [op |-> "score_internal", score |-> r.score]
    /\ UNCHANGED <<builder, index, payloads, disk, flushers, http, grpc>>

\* the operations that are handed a hardware counter: those of an index, or those of
\* a scorer
InitHw ==
    \/ InitIndex
    \/ InitBuilder /\ builder = new_builder("IntIndex")

NextHw ==
    \/ AddPoint
    \/ RemovePoint
    \/ Filter
    \/ EstimateCardinality
    \/ ScorerNew
    \/ ScoreStored
    \/ ScoreInternal

SpecHw == InitHw /\ [][NextHw]_vars

(***************************************************************************)
(* The REST handler.  A request is answered through time or through        *)
(* time_or_accept; the handler and the task it spawns run interleaved.     *)
(***************************************************************************)
\* a handler is entered; the next request is taken once the task of the previous
\* one has ended
HttpRequest ==
    /\ http.pc \in {"idle", "responded"}
    /\ http.task # "running"
    /\ http.served < MaxRequests
    /\ \E helper \in {"time", "time_or_accept"} : \E wait \in BOOLEAN :
          /\ helper = "time" => wait
          /\ http' = [http EXCEPT !.pc = "called", !.helper = helper, !.wait = wait,
                                  !.task = "none", !.inline = "none", !.result = <<>>,
                                  !.response = <<>>]
    /\ UNCHANGED <<index_vars, scorer, grpc>>

\* time(future): the future is polled and is pending at an await point
HttpTimePoll ==
    /\ http.pc = "called" /\ http.helper = "time"
    /\ http' = [http EXCEPT !.pc = "polling", !.inline = "pending"]
    /\ UNCHANGED <<index_vars, scorer, grpc>>

\* time(future): the future completes and is answered
HttpTime ==
    /\ http.pc \in {"called", "polling"} /\ http.helper = "time"
    /\ \E res \in FutureResults :
          LET r == time(res, http.logs) IN
          http' = [http EXCEPT !.pc = "responded", !.result = <<res>>, !.response = <<r.response>>,
                               !.inline = "done",
                               !.service_errors = IF ~res.ok /\ res.err.kind = "ServiceError"
                                                  THEN @ + 1 ELSE @,
                               !.logs = r.logs, !.served = @ + 1]
    /\ UNCHANGED <<index_vars, scorer, grpc>>

\* time_or_accept: tokio::task::spawn
HttpSpawn ==
    /\ http.pc = "called" /\ http.helper = "time_or_accept"
    /\ http' = [http EXCEPT !.pc = "spawned", !.task = "running"]
    /\ UNCHANGED <<index_vars, scorer, grpc>>

\* the spawned task: the future completes, and without wait its error is logged
HttpTaskRun ==
    /\ http.task = "running"
    /\ \E res \in FutureResults :
          http' = [http EXCEPT !.task = "done", !.result = <<res>>,
                               !.service_errors = IF ~res.ok /\ res.err.kind = "ServiceError"
                                                  THEN @ + 1 ELSE @,
                               !.logs = IF ~http.wait /\ ~res.ok
                                        THEN log_service_error(@, res.err) ELSE @]
    /\ UNCHANGED <<index_vars, scorer, grpc>>

\* the spawned task panics
HttpTaskPanic ==
    /\ http.task = "running"
    /\ http' = [http EXCEPT !.task = "panicked"]
    /\ UNCHANGED <<index_vars, scorer, grpc>>

\* time_or_accept: the handler joins the task if wait, and answers through time_impl
HttpRespond ==
    /\ http.pc = "spawned"
    /\ http.wait => http.task \in {"done", "panicked"}
    /\ LET r == time_impl(time_or_accept_future(http.wait, http.task, http.result), http.logs) IN
       http' = [http EXCEPT !.pc = "responded", !.response = <<r.response>>, !.logs = r.logs,
                            !.join_errors = IF http.wait /\ http.task = "panicked" THEN @ + 1 ELSE @,
                            !.served = @ + 1]
    /\ UNCHANGED <<index_vars, scorer, grpc>>

\* the client goes away while the handler awaits: actix drops the response future.
\* Once the task is spawned the only await of time_or_accept is handle.await, taken
\* with wait; without wait the answer follows the spawn with no await in between.
HttpDrop ==
    /\ \/ http.pc \in {"called", "polling"}
       \/ http.pc = "spawned" /\ http.wait
    /\ http' = drop_response_future(http)
    /\ UNCHANGED <<index_vars, scorer, grpc>>

InitHttp ==
    /\ InitBuilder
    /\ builder = new_builder("IntIndex")

NextHttp ==
    \/ HttpRequest
    \/ HttpTimePoll
    \/ HttpTime
    \/ HttpSpawn
    \/ HttpTaskRun
    \/ HttpTaskPanic
    \/ HttpRespond
    \/ HttpDrop

SpecHttp == InitHttp /\ [][NextHttp]_vars

\* the runtime goes on running a spawned task until it ends
SpecHttpLive == SpecHttp /\ WF_vars(HttpTaskRun \/ HttpTaskPanic)

(***************************************************************************)
(* A gRPC request passing AuthMiddleware::call.                            *)
(***************************************************************************)
\* call(request) on the outermost of the stacked AuthMiddleware, in a build with or
\* without debug assertions
GrpcCall ==
    /\ grpc.pc = "idle"
    /\ \E uri \in Uris : \E key \in ApiKeys :
       \E layers \in 1..MaxLayers : \E debug \in BOOLEAN :
          grpc' = [pc |-> "called", req |-> Request(uri, key), validate_calls |-> 0,
                   ok |-> FALSE, status |-> "none", inner_calls |-> 0,
                   layers |-> layers, layer |-> 1, debug |-> debug, outer |-> <<>>,
                   asserts |-> TRUE, validated |-> <<>>, out |-> "none",
                   handled |-> <<>>, extracted |-> <<>>]
    /\ UNCHANGED <<index_vars, scorer, http>>

\* check(auth_keys, request).await in the current layer, up to its first await: on a
\* health-check path check returns at once; on any other path validate_request is
\* called and check waits for it
GrpcCheck ==
    /\ grpc.pc = "called"
    /\ \E validated \in validate_request(grpc.req.key) :
          LET r == check(grpc.req, validated) IN
          IF r.validate_calls = 0
          THEN grpc' = [grpc EXCEPT !.pc = "checked", !.req = r.req, !.ok = r.ok,
                                    !.validate_calls = 0, !.validated = <<>>,
                                    !.status = "none"]
          ELSE grpc' = [grpc EXCEPT !.pc = "validating", !.validate_calls = 1,
                                    !.validated = <<>>]
    /\ UNCHANGED <<index_vars, scorer, http>>

\* validate_request returns and check goes on: map_err on Err; on Ok the Access is
\* inserted and its debug_assert! evaluated, then the inference token and its
\* debug_assert!.  A debug_assert! that fails panics in a build with debug
\* assertions, the first one before the token is inserted, and is not evaluated in
\* a build without
GrpcValidated ==
    /\ grpc.pc = "validating"
    /\ \E validated \in validate_request(grpc.req.key) :
          LET r == check(grpc.req, validated)
              first_fails == r.previous \notin {<<>>, <<"absent">>}
              panics == grpc.debug /\ ~debug_asserts_hold(r)
          IN grpc' = [grpc EXCEPT !.pc = IF panics THEN "panicked" ELSE "checked",
                                  !.req = IF panics /\ first_fails
                                          THEN [grpc.req EXCEPT !.access = r.req.access]
                                          ELSE r.req,
                                  !.ok = r.ok,
                                  !.asserts = debug_asserts_hold(r),
                                  !.validated = <<validated>>,
                                  !.status = IF r.ok THEN "none" ELSE r.status]
    /\ UNCHANGED <<index_vars, scorer, http>>

\* Ok(req) => service.call(req).await, where the inner service is the wrapped
\* service: its handler is given the request with its extensions (handled) and
\* runs; call waits for its answer
GrpcServe ==
    /\ grpc.pc = "checked" /\ grpc.ok /\ grpc.layer = grpc.layers
    /\ grpc' = [grpc EXCEPT !.pc = "serving", !.inner_calls = @ + 1,
                            !.handled = <<grpc.req>>]
    /\ UNCHANGED <<index_vars, scorer, http>>

\* the wrapped service answers Ok(response) or a service error, and call resolves
\* to that answer
GrpcAnswer ==
    /\ grpc.pc = "serving"
    /\ \E out \in {"Ok(response)", "Err(service error)"} :
          grpc' = [grpc EXCEPT !.pc = "served", !.out = out]
    /\ UNCHANGED <<index_vars, scorer, http>>

\* the future of call is dropped (the client cancelled the call): before its first
\* poll, when nothing has run yet, or at one of its awaits, while validate_request
\* or the wrapped service is pending.  The call of an inner layer is polled by the
\* poll that made it
GrpcDrop ==
    /\ \/ grpc.pc = "called" /\ grpc.layer = 1
       \/ grpc.pc \in {"validating", "serving"}
    /\ grpc' = [grpc EXCEPT !.pc = "dropped"]
    /\ UNCHANGED <<index_vars, scorer, http>>

\* Ok(req) => service.call(req).await, where the inner service is the next
\* AuthMiddleware of the stack (AuthLayer::layer wraps any service)
GrpcServeLayer ==
    /\ grpc.pc = "checked" /\ grpc.ok /\ grpc.layer < grpc.layers
    /\ grpc' = [grpc EXCEPT !.pc = "called", !.layer = @ + 1,
                            !.outer = Append(@, [validate_calls |-> grpc.validate_calls,
                                                 inner_calls |-> grpc.inner_calls + 1]),
                            !.validate_calls = 0, !.inner_calls = 0, !.ok = FALSE]
    /\ UNCHANGED <<index_vars, scorer, http>>

\* Err(e) => Ok(e.to_http()); the layers around pass the answer on
GrpcReject ==
    /\ grpc.pc = "checked" /\ ~grpc.ok
    /\ grpc' = [grpc EXCEPT !.pc = "rejected", !.out = "Ok(status)"]
    /\ UNCHANGED <<index_vars, scorer, http>>

\* extract_access(&mut req) in the handler of the wrapped service, while it runs
GrpcExtractAccess ==
    /\ grpc.pc = "serving" /\ Len(grpc.extracted) < MaxExtracts
    /\ LET r == extract_access(grpc.handled[1]) IN
       grpc' = [grpc EXCEPT !.handled = <<r.req>>, !.extracted = Append(@, r.access)]
    /\ UNCHANGED <<index_vars, scorer, http>>

InitGrpc ==
    /\ InitBuilder
    /\ builder = new_builder("IntIndex")

NextGrpc ==
    \/ GrpcCall
    \/ GrpcCheck
    \/ GrpcValidated
    \/ GrpcServe
    \/ GrpcAnswer
    \/ GrpcDrop
    \/ GrpcServeLayer
    \/ GrpcReject
    \/ GrpcExtractAccess

SpecGrpc == InitGrpc /\ [][NextGrpc]_vars

(***************************************************************************)
(* Properties.                                                             *)
(***************************************************************************)
\* the values of the field domain a payload holds: get_values of each of its elements
RECURSIVE payload_values(_, _)
payload_values(variant, payload) ==
    IF payload = <<>> THEN <<>>
    ELSE get_values(variant, Head(payload)) \o payload_values(variant, Tail(payload))

\* the points the index has been given at least one value of the field domain for
points_with_values ==
    {id \in Ids : payloads[id].present /\ payload_values(index.variant, payloads[id].p) # <<>>}

\* a value of the field domain satisfies a condition
value_satisfies(ix, cond, v) ==
    CASE cond.arm = "range" -> in_range(v.n, cond)
      [] cond.arm = "match_value" -> get_value(ix.variant, cond.value) = Some(v)
      [] cond.arm = "match_any" -> v \in match_keys(ix.variant, cond)
      [] cond.arm = "match_except" -> v \notin match_keys(ix.variant, cond)
      [] cond.arm \in {"match_text", "match_phrase"} ->
            tokens_match(ix.lang, Range(tokenize(ix.lang, v.w)), cond.arm = "match_phrase",
                         query_words(cond))
      [] cond.arm \in {"geo_bounding_box", "geo_radius", "geo_polygon"} -> in_geo(v, cond)
      [] OTHER -> FALSE

\* C1: add_point(id, v) followed by add_point(id, v') returns what add_point(id, v')
\* alone returns and leaves the index in the same state, hence with the same filter
\* results, count_indexed_points and values_count; the point then holds the values
\* of v' and none of v.
C1_PreClearIdempotent ==
    index # NoIndex =>
        \A id \in Ids : \A w \in Payloads(index) :
            LET alone == FieldIndex_add_point(index, id, w) IN
            /\ alone.res = "Ok" =>
                  FieldIndex_values_count(alone.ix, id) = Len(payload_values(index.variant, w))
            /\ \A v \in Payloads(index) :
                  FieldIndex_add_point(FieldIndex_add_point(index, id, v).ix, id, w) = alone

\* a point that held values has been given another payload
C1_Witness ==
    /\ last.op = "add_point" /\ last.res = "Ok"
    /\ last.had
    /\ points_with_values # {}

\* C2: a point removed with Ok and not added since (as any point the index holds no
\* payload of) is yielded by no filter that returns an iterator.
C2_RemovedNeverYielded ==
    index # NoIndex =>
        \A id \in Ids : ~payloads[id].present =>
            \A cond \in Conds(index) :
                LET r == FieldIndex_filter(index, cond) IN r.some => id \notin r.v

\* a point with values has been removed while another point is still found
C2_Witness ==
    /\ last.op = "remove_point" /\ last.res = "Ok"
    /\ last.had
    /\ \E cond \in Conds(index) :
          LET r == FieldIndex_filter(index, cond) IN r.some /\ r.v # {}

\* C3: a point added with Ok is yielded by the filter of every condition that applies
\* to the index and that one of the accepted values of its payload satisfies.
C3_ReadYourWrites ==
    index # NoIndex =>
        \A id \in Ids : payloads[id].present =>
            \A v \in Range(payload_values(index.variant, payloads[id].p)) :
                \A cond \in Conds(index) :
                    (shape_applies(index.variant, cond) /\ value_satisfies(index, cond, v))
                        => LET r == FieldIndex_filter(index, cond) IN r.some /\ id \in r.v

\* after an add_point a point is found by a condition one of its values satisfies
C3_Witness ==
    /\ last.op = "add_point" /\ last.res = "Ok"
    /\ \E cond \in Conds(index) :
          /\ shape_applies(index.variant, cond)
          /\ \E id \in FieldIndex_filter(index, cond).v :
                \E v \in Range(payload_values(index.variant, payloads[id].p)) :
                    value_satisfies(index, cond, v)

\* C4: in every state reached by add_point and remove_point, on every variant,
\* count_indexed_points is the number of points that hold at least one indexed value:
\* a point added without an accepted value is not counted, a point added again is
\* counted once.
C4_CountIsPointsWithValues ==
    index # NoIndex => FieldIndex_count_indexed_points(index) = Cardinality(points_with_values)

\* a point with values has been added again, next to a point added without any
\* accepted value: one point is counted
C4_Witness ==
    /\ last.op = "add_point" /\ last.res = "Ok"
    /\ last.had
    /\ \E other \in Ids \ points_with_values : payloads[other].present
    /\ FieldIndex_count_indexed_points(index) = 1

\* C5: remove_point of a point without values in the index (never added, removed, or
\* added without an accepted value) returns Ok and leaves the index as it is.
C5_RemoveAbsentIsNoOp ==
    index # NoIndex =>
        \A id \in Ids :
            (~payloads[id].present \/ (index.variant # "NullIndex" /\ id \notin points_with_values))
                => LET r == FieldIndex_remove_point(index, id) IN r.res = "Ok" /\ r.ix = index

\* a point the index did not hold has been removed from an index that holds another
C5_Witness ==
    /\ last.op = "remove_point" /\ last.res = "Ok"
    /\ ~last.had
    /\ index.points_count > 0

\* C6: a point that filter(cond) yields has a raw payload value for which
\* special_check_condition(cond, value) is not Some(false).
C6_FilterAgreesWithSpecialCheck ==
    index # NoIndex =>
        \A cond \in Conds(index) : \A id \in Ids :
            LET r == FieldIndex_filter(index, cond) IN
            (r.some /\ id \in r.v /\ payloads[id].present)
                => \E i \in 1..Len(payloads[id].p) :
                      special_check_condition(index, cond, payloads[id].p[i]) # Some(FALSE)

\* C7: the number of points filter(cond) yields lies between the min and the max of
\* estimate_cardinality(cond), whenever both answer.
C7_FilterWithinEstimate ==
    index # NoIndex =>
        \A cond \in Conds(index) :
            LET r == FieldIndex_filter(index, cond)
                e == FieldIndex_estimate_cardinality(index, cond)
            IN (r.some /\ e.some) => (e.v.min <= Cardinality(r.v) /\ Cardinality(r.v) <= e.v.max)

\* an estimate with min < max has been given for a condition whose filter yields a point
C7_Witness ==
    /\ last.op = "estimate_cardinality" /\ last.out.some
    /\ last.out.v.min < last.out.v.max
    /\ \E cond \in Conds(index) :
          /\ FieldIndex_estimate_cardinality(index, cond) = last.out
          /\ FieldIndex_filter(index, cond).some
          /\ FieldIndex_filter(index, cond).v # {}

\* C8 as stated: every estimate has min <= exp <= max <= count_indexed_points().
C8_EstimateOrdered ==
    index # NoIndex =>
        \A cond \in Conds(index) :
            LET e == FieldIndex_estimate_cardinality(index, cond) IN
            e.some => /\ e.v.min <= e.v.exp
                      /\ e.v.exp <= e.v.max
                      /\ e.v.max <= FieldIndex_count_indexed_points(index)

\* C8, amended: every estimate has min <= exp <= max; on every variant other than
\* NullIndex max <= count_indexed_points(); the is-null and is-empty estimates of
\* NullIndex count points that hold no value, and their max is at most the number of
\* points that were added and hold no value.
C8_EstimateOrderedExceptNull ==
    index # NoIndex =>
        \A cond \in Conds(index) :
            LET e == FieldIndex_estimate_cardinality(index, cond) IN
            e.some => /\ e.v.min <= e.v.exp
                      /\ e.v.exp <= e.v.max
                      /\ index.variant # "NullIndex" =>
                            e.v.max <= FieldIndex_count_indexed_points(index)
                      /\ index.variant = "NullIndex" =>
                            e.v.max <= Cardinality({id \in Ids \ points_with_values :
                                                       payloads[id].present})

\* an estimate whose max is the number of indexed points, of which there are several,
\* has been given
C8_Witness ==
    /\ last.op = "estimate_cardinality" /\ last.out.some
    /\ last.out.v.max = FieldIndex_count_indexed_points(index)
    /\ last.out.v.max > 1
    /\ last.out.v.min < last.out.v.exp

\* the predicates each variant supports (the capability table of the data model)
predicates_supported(variant) ==
    CASE variant \in NumericVariants -> {"range"}
      [] variant \in MapVariants -> {"match_value", "match_any", "match_except"}
      [] variant = "GeoIndex" -> {"geo_bounding_box", "geo_radius", "geo_polygon"}
      [] variant = "FullTextIndex" -> {"match_text", "match_phrase"}
      [] variant = "BoolIndex" -> {"match_value"}
      [] variant = "NullIndex" -> {"is_null", "is_empty"}

C10_BuilderCallOrder ==
    /\ last.op = "builder_init" =>
          /\ last.phase = "new" => last.res = "Ok"
          /\ last.phase # "new" => last.res = "PreconditionFailed"
          /\ index = NoIndex
    /\ last.op = "builder_add_point" =>
          /\ (last.phase # "init" \/ ~last.ordered) => last.res = "PreconditionFailed"
          /\ index = NoIndex
    /\ last.op = "builder_finalize" =>
          /\ last.phase # "init" => (last.res = "PreconditionFailed" /\ index = NoIndex)
          /\ (last.phase = "init" /\ last.res = "Ok") => index # NoIndex

\* an initialised builder holding a point has refused a point id not above the last
C10_Witness ==
    /\ last.op = "builder_add_point" /\ last.res = "PreconditionFailed"
    /\ last.phase = "init"
    /\ ~last.ordered
    /\ builder # NoBuilder /\ builder.last_id >= 0

\* the incremental path: an index fed, in ascending id order from point id on, the
\* payloads held of the points through FieldIndex::add_point
RECURSIVE incremental_index(_, _, _)
incremental_index(ix, given, id) ==
    IF id > MaxPoint THEN ix
    ELSE incremental_index(IF given[id].present THEN FieldIndex_add_point(ix, id, given[id].p).ix ELSE ix,
                           given, id + 1)

\* what a caller observes of an index: the filter result of every condition,
\* count_indexed_points and values_count of every point
observable(ix) ==
    [filter |-> [cond \in Conds(ix) |-> FieldIndex_filter(ix, cond)],
     count |-> FieldIndex_count_indexed_points(ix),
     values_count |-> [id \in Ids |-> FieldIndex_values_count(ix, id)]]

\* C11: the index a builder returns from finalize after init and add_point with
\* ascending ids, whether the builder buffered the points and sealed them or fed a
\* live structure, is observably the index obtained by feeding the same (id, payload)
\* pairs to an initially empty mutable index of the same variant through add_point.
C11_BuilderEqualsIncremental ==
    (last.op = "builder_finalize" /\ last.res = "Ok") =>
        \A storage \in {"rocksdb", "gridstore"} :
            observable(index) =
                observable(incremental_index(empty_index(index.variant, storage, "mutable"), payloads, 0))

\* a buffering builder fed several points with values has sealed them into an
\* immutable index that answers a condition with points
C11_Witness ==
    /\ last.op = "builder_finalize" /\ last.res = "Ok"
    /\ builder_buffers(last.name) /\ index.mutability = "immutable"
    /\ index.points_count > 1
    /\ \E cond \in Conds(index) :
          FieldIndex_filter(index, cond).some /\ FieldIndex_filter(index, cond).v # {}

\* the FieldIndex variant finalize returns for an initialised builder of the name
built_variant(name) ==
    FieldIndexBuilder_finalize([new_builder(name) EXCEPT !.phase = "init"]).ix.variant

\* the FieldIndex variants some FieldIndexBuilder variant finalizes into
built_variants == {built_variant(name) : name \in BuilderNames}

\* builders of one index kind finalize into one FieldIndex variant, whatever their
\* storage backend
kind_decides_variant ==
    \A n1 \in BuilderNames : \A n2 \in BuilderNames :
        builder_kind(n1) = builder_kind(n2) => built_variant(n1) = built_variant(n2)

\* C12 as stated: every FieldIndex variant is returned by the finalize of at least one
\* FieldIndexBuilder variant, and the variant finalize returns depends on the index
\* kind of the builder only, not on its storage backend.
C12_BuildersMirrorVariants ==
    /\ built_variants = Variants
    /\ kind_decides_variant
    /\ (last.op = "builder_finalize" /\ last.res = "Ok") => index.variant = built_variant(last.name)

\* C12, amended: every FieldIndex variant other than UuidIndex is returned by the
\* finalize of at least one FieldIndexBuilder variant (the Uuid builders return
\* UuidMapIndex), and the variant finalize returns depends on the index kind of the
\* builder only, not on its storage backend.
C12_BuildersMirrorExceptUuidIndex ==
    /\ built_variants = Variants \ {"UuidIndex"}
    /\ kind_decides_variant
    /\ (last.op = "builder_finalize" /\ last.res = "Ok") => index.variant = built_variant(last.name)

\* a Uuid builder over the mmap backend has been finalized into a UuidMapIndex
C12_Witness ==
    /\ last.op = "builder_finalize" /\ last.res = "Ok"
    /\ last.name = "UuidMmapIndex"
    /\ index.variant = "UuidMapIndex"

\* C15: on an index that reports itself immutable on an on-disk storage, add_point and
\* remove_point return an error and leave the index as it is.
C15_ImmutableRejectsMutation ==
    (/\ index # NoIndex
     /\ get_full_index_type(index).mutability = "immutable"
     /\ get_full_index_type(index).storage_type \in OnDiskStorage)
        => \A id \in Ids :
              /\ LET r == FieldIndex_remove_point(index, id) IN r.res # "Ok" /\ r.ix = index
              /\ \A payload \in Payloads(index) :
                    LET r == FieldIndex_add_point(index, id, payload) IN r.res # "Ok" /\ r.ix = index

\* the field of the point was present as an empty array
field_is_empty_array(payload) == payload = <<JArray(<<>>)>>

\* C18: values_is_empty(id) is true exactly for a point whose field was given as an
\* empty array (false for a point with a value, an absent field, a point never added
\* or removed), and values_count(id) is the size of the value multiset of the point.
C18_ValuesIsEmptyIffEmptyArray ==
    index # NoIndex =>
        \A id \in Ids :
            /\ FieldIndex_values_is_empty(index, id)
                  <=> (payloads[id].present /\ field_is_empty_array(payloads[id].p))
            /\ FieldIndex_values_count(index, id) =
                  (IF payloads[id].present THEN Len(payload_values(index.variant, payloads[id].p)) ELSE 0)

\* the keyword scenario: an empty index over points 1..3 given (1, [red, blue]),
\* (2, [blue]), (3, [green])
ScenarioPoints == 1..3
keyword_scenario_index ==
    LET empty == [empty_index("KeywordIndex", "gridstore", "mutable") EXCEPT
                     !.fwd = [id \in ScenarioPoints |-> <<>>],
                     !.vcount = [id \in ScenarioPoints |-> 0]]
        p1 == FieldIndex_add_point(empty, 1, <<JArray(<<JStr(<<"red">>), JStr(<<"blue">>)>>)>>).ix
        p2 == FieldIndex_add_point(p1, 2, <<JArray(<<JStr(<<"blue">>)>>)>>).ix
    IN FieldIndex_add_point(p2, 3, <<JArray(<<JStr(<<"green">>)>>)>>).ix

\* any-of{S} yields exactly the points holding at least one value in S, on every map
\* index and for every any-of condition that applies to it
any_of_is_existential ==
    (index # NoIndex /\ index.variant \in MapVariants) =>
        \A cond \in Conds(index) :
            (cond.arm = "match_any" /\ shape_applies(index.variant, cond)) =>
                FieldIndex_filter(index, cond) =
                    Some({id \in Ids : payloads[id].present /\
                            \E v \in Range(payload_values(index.variant, payloads[id].p)) :
                                v \in match_keys(index.variant, cond)})

\* C19 as stated: any-of{S} yields the points with a value in S; except{S} yields the
\* points the scenario lists, those with values none of which is in S; in the scenario
\* any-of{blue, green} yields {1, 2, 3} and except{blue} yields {3}.
C19_ExceptExcludesHolders ==
    /\ any_of_is_existential
    /\ (index # NoIndex /\ index.variant \in MapVariants) =>
          \A cond \in Conds(index) :
              (cond.arm = "match_except" /\ shape_applies(index.variant, cond)) =>
                  FieldIndex_filter(index, cond) =
                      Some({id \in points_with_values :
                              \A v \in Range(payload_values(index.variant, payloads[id].p)) :
                                  v \notin match_keys(index.variant, cond)})
    /\ FieldIndex_filter(keyword_scenario_index,
                         CMatchAny({JStr(<<"blue">>), JStr(<<"green">>)})) = Some({1, 2, 3})
    /\ FieldIndex_filter(keyword_scenario_index, CMatchExcept({JStr(<<"blue">>)})) = Some({3})

\* C19, amended: any-of{S} yields the points with a value in S; except{S} yields the
\* points with at least one value that is not in S; in the scenario
\* any-of{blue, green} yields {1, 2, 3} and except{blue} yields {1, 3} (point 1 is
\* yielded for its value red).
C19_ExceptIsExistential ==
    /\ any_of_is_existential
    /\ (index # NoIndex /\ index.variant \in MapVariants) =>
          \A cond \in Conds(index) :
              (cond.arm = "match_except" /\ shape_applies(index.variant, cond)) =>
                  FieldIndex_filter(index, cond) =
                      Some({id \in Ids : payloads[id].present /\
                              \E v \in Range(payload_values(index.variant, payloads[id].p)) :
                                  v \notin match_keys(index.variant, cond)})
    /\ FieldIndex_filter(keyword_scenario_index,
                         CMatchAny({JStr(<<"blue">>), JStr(<<"green">>)})) = Some({1, 2, 3})
    /\ FieldIndex_filter(keyword_scenario_index, CMatchExcept({JStr(<<"blue">>)})) = Some({1, 3})

\* an except filter on a keyword index has yielded a point that holds an excluded
\* value next to another value, and not the point that holds the excluded value only
C19_Witness ==
    /\ last.op = "filter" /\ last.out.some
    /\ index # NoIndex /\ index.variant = "KeywordIndex"
    /\ \E cond \in Conds(index) :
          /\ cond.arm = "match_except" /\ shape_applies(index.variant, cond)
          /\ FieldIndex_filter(index, cond) = last.out
          /\ \E id \in last.out.v :
                \E v \in Range(payload_values(index.variant, payloads[id].p)) :
                    v \in match_keys(index.variant, cond)
          /\ \E id \in points_with_values \ last.out.v : TRUE

\* the full-text scenario: an empty index with the english stop-word list over points
\* 1..2 given 1 = "The quick brown fox" and 2 = "A quick red fox"
ScenarioDocs == 1..2
text_scenario_index ==
    LET empty == [empty_index("FullTextIndex", "gridstore", "mutable") EXCEPT
                     !.fwd = [id \in ScenarioDocs |-> <<>>],
                     !.vcount = [id \in ScenarioDocs |-> 0],
                     !.lang = "english"]
        p1 == FieldIndex_add_point(empty, 1, <<EnglishSample.a1>>).ix
    IN FieldIndex_add_point(p1, 2, <<EnglishSample.a2>>).ix

\* a text holds every query word that is no stop-word
text_has_words(lang, text, query) ==
    \A i \in 1..Len(query) :
        \/ Lower(query[i]) \in stop_words(lang)
        \/ \E j \in 1..Len(text) : Lower(text[j]) = Lower(query[i])

\* a text holds the query words that are no stop-words at consecutive positions,
\* a stop-word of the query standing for any one word or none
text_has_phrase(lang, text, query) ==
    \E p \in (0 - Len(query))..Len(text) :
        \A i \in 1..Len(query) :
            \/ Lower(query[i]) \in stop_words(lang)
            \/ (p + i \in 1..Len(text) /\ Lower(text[p + i]) = Lower(query[i]))

\* on an index with the english list, match-text yields the points whose text holds
\* every query word that is no stop-word, match-phrase those whose text holds them at
\* consecutive positions (counted with the stop-words in place); a point given one
\* text value is looked at
text_rule_holds ==
    (index # NoIndex /\ index.variant = "FullTextIndex" /\ index.lang = "english") =>
        \A id \in Ids : \A cond \in Conds(index) :
            (/\ cond.arm \in {"match_text", "match_phrase"}
             /\ payloads[id].present
             /\ Len(payload_values(index.variant, payloads[id].p)) = 1) =>
                LET text == payload_values(index.variant, payloads[id].p)[1].w IN
                (id \in FieldIndex_filter(index, cond).v) <=>
                    (IF cond.arm = "match_text"
                     THEN text_has_words(index.lang, text, cond.text)
                     ELSE text_has_phrase(index.lang, text, cond.phrase))

\* C20 as stated: with the english stop-words, match-text yields the points holding
\* every query token that is no stop-word and match-phrase those holding them at
\* consecutive positions; for 1 = "The quick brown fox", 2 = "A quick red fox",
\* match-text "quick fox" yields {1, 2} and match-phrase "quick fox" yields {2}.
C20_PhraseScenarioYieldsDoc2 ==
    /\ text_rule_holds
    /\ FieldIndex_filter(text_scenario_index, CMatchText(<<"quick", "fox">>)) = Some({1, 2})
    /\ FieldIndex_filter(text_scenario_index, CMatchPhrase(<<"quick", "fox">>)) = Some({2})

\* C20, amended: the same rule; in the scenario match-text "quick fox" yields {1, 2}
\* and match-phrase "quick fox" yields no point (doc 1 has "brown" and doc 2 has
\* "red" between), and special_check_condition says so of either document.
C20_PhraseScenarioYieldsNone ==
    /\ text_rule_holds
    /\ FieldIndex_filter(text_scenario_index, CMatchText(<<"quick", "fox">>)) = Some({1, 2})
    /\ FieldIndex_filter(text_scenario_index, CMatchPhrase(<<"quick", "fox">>)) = Some({})
    /\ \A doc \in {EnglishSample.a1, EnglishSample.a2} :
          /\ special_check_condition(text_scenario_index, CMatchText(<<"quick", "fox">>), doc) = Some(TRUE)
          /\ special_check_condition(text_scenario_index, CMatchPhrase(<<"quick", "fox">>), doc) = Some(FALSE)

\* an index with the english list holds both documents, and a filter has yielded
\* what match-phrase "quick fox" yields while match-text "quick fox" yields both
C20_Witness ==
    /\ last.op = "filter"
    /\ index # NoIndex /\ index.variant = "FullTextIndex" /\ index.lang = "english"
    /\ payloads[0] = Payload(<<EnglishSample.a1>>)
    /\ payloads[1] = Payload(<<EnglishSample.a2>>)
    /\ last.out = FieldIndex_filter(index, CMatchPhrase(<<"quick", "fox">>))
    /\ FieldIndex_filter(index, CMatchText(<<"quick", "fox">>)) = Some({0, 1})
    /\ FieldIndex_filter(index, CMatchPhrase(<<"red", "fox">>)) = Some({1})


\* C16: time_or_accept(future, wait = false) answers 202 Accepted with no result,
\* whether the spawned task is still running, has returned Ok or Err, or has
\* panicked; no interleaving gives wait = false a 200 or an error status.
C16_NoWaitAnswersAccepted ==
    (http.pc = "responded" /\ http.helper = "time_or_accept" /\ ~http.wait) =>
        /\ http.response[1].status = 202
        /\ http.response[1].result = "None"
        /\ http.response[1].api_status = "Accepted"

\* the 202 is given while the task of the request is still running
C16_Witness ==
    /\ http.pc = "responded" /\ http.helper = "time_or_accept" /\ ~http.wait
    /\ http.response[1].status = 202
    /\ http.task = "running" /\ http.result = <<>>

\* C17: a request whose path is exactly /qdrant.Qdrant/HealthCheck or
\* /grpc.health.v1.Health/Check passes check with full Access and an empty inference
\* token and is handed to the inner service, whatever its headers, and
\* validate_request is not called; for every other path validate_request is called
\* before the request is passed on or refused.
C17_HealthCheckBypass ==
    (grpc.pc # "idle") =>
        IF grpc.req.uri.path \in {<<"qdrant.Qdrant", "HealthCheck">>, <<"grpc.health.v1.Health", "Check">>}
        THEN /\ grpc.validate_calls = 0
             /\ grpc.pc \notin {"validating", "rejected", "panicked"}
             /\ grpc.pc \in {"checked", "serving", "served"} =>
                   /\ grpc.ok
                   /\ grpc.req.access = "full" /\ grpc.req.token = "None"
        ELSE /\ grpc.pc \in {"validating", "checked", "serving", "served", "rejected"} =>
                   grpc.validate_calls = 1
             /\ grpc.pc \in {"serving", "served"} => grpc.req.key \in {"rw", "ro"}

\* a health check without a valid key reached the inner service
C17_Witness ==
    /\ grpc.pc = "served" /\ grpc.inner_calls = 1
    /\ grpc.req.uri.path = <<"grpc.health.v1.Health", "Check">>
    /\ grpc.req.key = "wrong"
    /\ grpc.req.access = "full" /\ grpc.validate_calls = 0

\* the null scenario: an empty null index over points 1..3 given (1, [1]), (2, field
\* absent: no payload value) and (3, [[]]: one payload value, the empty array)
null_scenario_index ==
    LET empty == [empty_index("NullIndex", "gridstore", "mutable") EXCEPT
                     !.fwd = [id \in ScenarioPoints |-> <<>>],
                     !.vcount = [id \in ScenarioPoints |-> 0]]
        p1 == FieldIndex_add_point(empty, 1, <<JInt(1)>>).ix
        p2 == FieldIndex_add_point(p1, 2, <<>>).ix
    IN FieldIndex_add_point(p2, 3, <<JArray(<<>>)>>).ix

\* C21: in the null scenario is-null yields exactly {2} and is-empty exactly {2, 3};
\* on every null index is-empty yields the points given without a value (field absent
\* or an empty array) and is-null only the points given with the field absent.
C21_NullDistinguishesAbsent ==
    /\ FieldIndex_filter(null_scenario_index, CIsNull) = Some({2})
    /\ FieldIndex_filter(null_scenario_index, CIsEmpty) = Some({2, 3})
    /\ (index # NoIndex /\ index.variant = "NullIndex") =>
          /\ FieldIndex_filter(index, CIsEmpty) =
                Some({id \in Ids : payloads[id].present /\
                        payload_values(index.variant, payloads[id].p) = <<>>})
          /\ FieldIndex_filter(index, CIsNull) =
                Some({id \in Ids : payloads[id].present /\ payloads[id].p = <<>>})

\* the (key, point id) pairs of the payloads given to the index whose key is in the range
pairs_in_range(ix, given, range) ==
    {[v |-> OrderValue_from(as_numeric(ix).v, k.n), p |-> id] :
        <<id, k>> \in {x \in Ids \X UNION {Range(payload_values(ix.variant, given[id].p)) :
                                            id \in {j \in Ids : given[j].present}} :
                         /\ given[x[1]].present
                         /\ x[2] \in Range(payload_values(ix.variant, given[x[1]].p))
                         /\ in_range(x[2].n, range)}}

\* C22: the stream of a numeric index for a range yields every (key, point id) pair
\* with the key in the range exactly once, ascending by key with ties on the key by
\* ascending point id, as OrderValue; consumed from the back it yields the exact
\* reverse sequence.
C22_StreamRangeSorted ==
    (last.op = "stream_range") =>
        LET front == last.out.front
            back == last.out.back
            n == Len(front)
        IN /\ Range(front) = pairs_in_range(index, payloads, last.range)
           /\ n = Cardinality(pairs_in_range(index, payloads, last.range))
           /\ \A i \in 1..n : \A j \in 1..n :
                 i < j => /\ front[i].v.t = front[j].v.t
                          /\ \/ front[i].v.v < front[j].v.v
                             \/ (front[i].v.v = front[j].v.v /\ front[i].p < front[j].p)
           /\ Len(back) = n
           /\ \A i \in 1..n : back[i] = front[n + 1 - i]

\* a stream of three or more pairs with a tie on the key
C22_Witness ==
    /\ last.op = "stream_range"
    /\ Len(last.out.front) >= 3
    /\ \E i \in 1..(Len(last.out.front) - 1) :
          /\ last.out.front[i].v = last.out.front[i + 1].v
          /\ last.out.front[i].p < last.out.front[i + 1].p

\* the number of elements add_point visits in a payload: the direct elements of an
\* array, a value that is no array itself
RECURSIVE payload_elements(_)
payload_elements(payload) ==
    IF payload = <<>> THEN 0
    ELSE (IF Head(payload).t = "array" THEN Len(Head(payload).a) ELSE 1)
            + payload_elements(Tail(payload))

\* C23: add_point with a payload holding a value that does not fit the field domain
\* (a float index given something that is no number, a UUID index given a malformed
\* UUID) returns BadInput.  A serde_json::Value holds no NaN: a float outside the
\* domain reaches add_point as a value of another type.
C23_OutOfDomainIsBadInput ==
    (index # NoIndex /\ index.variant \in {"FloatIndex", "UuidIndex", "UuidMapIndex"}) =>
        \A id \in Ids : \A payload \in Payloads(index) :
            payload_elements(payload) > Len(flatten_values(index.variant, payload))
                => FieldIndex_add_point(index, id, payload).res = "BadInput"

\* the charge of one score_stored(idx) on a storage that is on disk
score_stored_charge(storage, idx) ==
    SIZE_OF_MULTIVECTOR_OFFSET + storage.quantized_vector_size * get_offset(storage, idx).count

\* C24: over any sequence of score_stored calls the vector_io_read of the scorer's
\* counter grows by nothing when the storage is not on disk, and by the sum over the
\* calls of size_of(MultivectorOffset) + quantized_vector_size x sub-vector count of
\* the point when it is, whatever the order of the calls.
C24_DiskReadAccounting ==
    scorer.made =>
        scorer.hardware_counter.vector_io_read - scorer.given.vector_io_read =
            IF scorer.storage.is_on_disk
            THEN SumSeq([i \in DOMAIN scorer.calls |-> score_stored_charge(scorer.storage, scorer.calls[i])])
            ELSE 0

\* a scorer over a storage on disk, made with a counter whose multiplier the caller
\* had set otherwise, has scored points with different numbers of sub-vectors
C24_Witness ==
    /\ scorer.made /\ scorer.storage.is_on_disk
    /\ scorer.given.vector_io_read_multiplier = 3
    /\ Len(scorer.calls) = MaxCalls
    /\ \E i \in DOMAIN scorer.calls : \E j \in DOMAIN scorer.calls :
          get_offset(scorer.storage, scorer.calls[i]).count
              > get_offset(scorer.storage, scorer.calls[j]).count

\* C26: the headers of an error response hold Retry-After exactly when the error is
\* RateLimitExceeded with a retry_after; its value is a whole number of seconds not
\* smaller than retry_after and less than one second above it.
C26_RetryAfterIsCeiling ==
    (http.pc = "responded" /\ http.result # <<>> /\ http.response[1].api_status = "Error") =>
        LET err == http.result[1].err
            sent == http.response[1].headers.retry_after
        IN /\ sent = headers(err).retry_after
           /\ sent # <<>> <=> (err.kind = "RateLimitExceeded" /\ err.retry_after # <<>>)
           /\ sent # <<>> =>
                 LET seconds == sent[1]
                     duration == err.retry_after[1]
                 IN /\ seconds > duration.secs \/ (seconds = duration.secs /\ duration.nanos = 0)
                    /\ seconds < duration.secs + 1 \/ (seconds = duration.secs + 1 /\ duration.nanos > 0)

(***************************************************************************)
(* C27: estimates are monotone in the predicate.                           *)
(***************************************************************************)
\* a lower / upper border admits no value the other one rejects
lower_narrower(a, b) ==
    \/ b.kind = "unbounded"
    \/ a.kind # "unbounded" /\ (a.n > b.n \/ (a.n = b.n /\ ~(a.kind = "incl" /\ b.kind = "excl")))
upper_narrower(a, b) ==
    \/ b.kind = "unbounded"
    \/ a.kind # "unbounded" /\ (a.n < b.n \/ (a.n = b.n /\ ~(a.kind = "incl" /\ b.kind = "excl")))

\* the grid points a geo condition is compared on
GeoGrid == {[lat |-> lat, lon |-> lon] : lat \in -1..3, lon \in -1..3}

\* c1 and c2 are of the same shape and every value satisfying c1 satisfies c2
narrower(ix, c1, c2) ==
    /\ shape_applies(ix.variant, c1) /\ shape_applies(ix.variant, c2)
    /\ CASE c1.arm = "range" /\ c2.arm = "range" ->
                lower_narrower(c1.lo, c2.lo) /\ upper_narrower(c1.hi, c2.hi)
         [] c1.arm \in {"match_value", "match_any"} /\ c2.arm \in {"match_value", "match_any"} ->
                match_keys(ix.variant, c1) \subseteq match_keys(ix.variant, c2)
         [] c1.arm = "match_except" /\ c2.arm = "match_except" ->
                match_keys(ix.variant, c2) \subseteq match_keys(ix.variant, c1)
         [] c1.arm = "match_text" /\ c2.arm = "match_text" ->
                {t.tok : t \in Range(tokenize(ix.lang, c2.text))}
                    \subseteq {t.tok : t \in Range(tokenize(ix.lang, c1.text))}
         [] c1.arm = "match_phrase" /\ c2.arm = "match_phrase" ->
                \E shift \in 0..Len(c1.phrase) :
                    {[tok |-> t.tok, pos |-> t.pos + shift] : t \in Range(tokenize(ix.lang, c2.phrase))}
                        \subseteq Range(tokenize(ix.lang, c1.phrase))
         [] c1.arm = c2.arm /\ c1.arm \in {"geo_bounding_box", "geo_radius", "geo_polygon"} ->
                \A pt \in GeoGrid : in_geo(pt, c1) => in_geo(pt, c2)
         [] OTHER -> FALSE

\* C27: for every index state and every two conditions of the same supported shape of
\* which the first is narrower than the second (a sub-range, a subset of an any-of
\* set, ...), the estimate of the first is at most the estimate of the second in min,
\* in expected and in max.
C27_EstimateMonotone ==
    index # NoIndex =>
        \A c1, c2 \in Conds(index) :
            narrower(index, c1, c2) =>
                LET e1 == FieldIndex_estimate_cardinality(index, c1).v
                    e2 == FieldIndex_estimate_cardinality(index, c2).v
                IN e1.min <= e2.min /\ e1.exp <= e2.exp /\ e1.max <= e2.max

\* an estimate was asked of an index with points, and narrowing its condition
\* lowers the expected count
C27_Witness ==
    /\ index # NoIndex /\ index.points_count > 0
    /\ last.op = "estimate_cardinality" /\ last.out.some
    /\ \E c1, c2 \in Conds(index) :
          /\ c1 # c2 /\ narrower(index, c1, c2)
          /\ FieldIndex_estimate_cardinality(index, c2) = last.out
          /\ FieldIndex_estimate_cardinality(index, c1).v.exp < last.out.v.exp

(***************************************************************************)
(* C28: a match-text query made of stop-words only.                        *)
(***************************************************************************)
\* the match-text conditions put to the index all of whose words are stop-words of
\* its list
stop_word_queries(ix) ==
    {c \in Conds(ix) : c.arm = "match_text" /\ c.text # <<>> /\ tokenize(ix.lang, c.text) = <<>>}

\* C28: on a full-text index a match-text query whose tokens are all stop-words of
\* the configured list matches all indexed points: filter yields exactly the
\* count_indexed_points() points that have a value, and their number lies within
\* [min, max] of the estimate.
C28_StopWordQueryMatchesAll ==
    (index # NoIndex /\ index.variant = "FullTextIndex") =>
        \A c \in stop_word_queries(index) :
            LET out == FieldIndex_filter(index, c)
                e == FieldIndex_estimate_cardinality(index, c)
            IN /\ out.some /\ e.some
               /\ out.v = {id \in DOMAIN index.vcount : ~values_is_empty(index, id)}
               /\ Cardinality(out.v) = FieldIndex_count_indexed_points(index)
               /\ e.v.min <= Cardinality(out.v) /\ Cardinality(out.v) <= e.v.max

\* a stop-word query was put to a full-text index holding a point with a text and a
\* point without one
C28_Witness ==
    /\ index # NoIndex /\ index.variant = "FullTextIndex"
    /\ last.op = "filter" /\ last.out.some /\ Cardinality(last.out.v) = 1
    /\ \E id \in DOMAIN index.vcount : values_is_empty(index, id)
    /\ \E c \in stop_word_queries(index) : FieldIndex_filter(index, c) = last.out
    /\ \E c \in Conds(index) : c.arm = "match_text" /\ FieldIndex_filter(index, c) = Some({})

(***************************************************************************)
(* C29: special_check_condition answers for full-text conditions only.     *)
(***************************************************************************)
\* C29: special_check_condition returns Some(bool) only when the index is a
\* FullTextIndex and the condition's arm is text or phrase, the phrase checked with
\* positions and the text without; for every other variant and every other condition
\* it returns None, and it never modifies the index.
C29_SpecialCheckOnlyFullText ==
    [][(last'.op = "special_check_condition" /\ last' # last) =>
          LET cond == last'.cond
              answers == index.variant = "FullTextIndex" /\ cond.arm \in {"match_text", "match_phrase"}
          IN /\ UNCHANGED <<builder, index, payloads, disk, flushers>>
             /\ last'.out.some <=> answers
             /\ answers =>
                   last'.out.v = check_payload_match(index.lang, cond.arm = "match_phrase",
                                                     last'.value, query_words(cond))]_vars

\* a phrase was checked on a text that holds its words apart: the answer is
\* Some(false), and the same words as match-text are answered Some(true)
C29_Witness ==
    /\ index # NoIndex /\ index.variant = "FullTextIndex"
    /\ last.op = "special_check_condition" /\ last.cond.arm = "match_phrase"
    /\ last.out = Some(FALSE)
    /\ special_check_condition(index, CMatchText(last.cond.phrase), last.value) = Some(TRUE)

(***************************************************************************)
(* C30: what add_point hands to add_many.                                  *)
(***************************************************************************)
\* what the payload values contribute, one after the other: get_values of each
RECURSIVE contributions(_, _)
contributions(variant, payload) ==
    IF payload = <<>> THEN <<>>
    ELSE get_values(variant, Head(payload)) \o contributions(variant, Tail(payload))

\* the number of values a payload value contributes: of an array its direct elements
\* that get_value accepts, of any other value one if get_value accepts it
direct_count(variant, value) ==
    IF value.t = "array"
    THEN Cardinality({j \in 1..Len(value.a) : get_value(variant, value.a[j]).some})
    ELSE IF get_value(variant, value).some THEN 1 ELSE 0

\* C30: add_point(id, payload) calls add_many exactly once, after the pre-clear, with
\* the list built by visiting the payload values in order: an array contributes its
\* direct elements for which get_value is Some (an array nested in it is passed to
\* get_value as an element), a non-array contributes itself if get_value is Some;
\* rejected elements are skipped, duplicates and order are kept, and add_many is
\* called with an empty list too.
C30_AddManyOnceWithFlattened ==
    index # NoIndex =>
        \A id \in Ids : \A payload \in Payloads(index) :
            LET calls == ValueIndexer_add_point_calls(index, id, payload)
                values == contributions(index.variant, payload)
            IN /\ Len(calls) = 2
               /\ calls[1].f = "remove_point" /\ calls[1].id = id
               /\ calls[2].f = "add_many" /\ calls[2].id = id
               /\ calls[2].values = values
               /\ Len(values) = SumSeq([i \in 1..Len(payload) |-> direct_count(index.variant, payload[i])])
               /\ FieldIndex_add_point(index, id, payload)
                     = add_many(remove_point(index, id).ix, id, values)

\* a payload of an array that holds an array and a value, followed by a value, was
\* added to a point that had values: the point holds the two values the payload
\* contributes, not the nested array's
C30_Witness ==
    /\ index # NoIndex /\ index.variant = "KeywordIndex"
    /\ last.op = "add_point" /\ last.res = "Ok" /\ last.had
    /\ \E id \in Ids :
          /\ payloads[id].present /\ Len(payloads[id].p) = 2
          /\ payloads[id].p[1].t = "array"
          /\ \E j \in 1..Len(payloads[id].p[1].a) : payloads[id].p[1].a[j].t = "array"
          /\ contributions(index.variant, payloads[id].p) = <<index.fwd[id][1], index.fwd[id][2]>>
          /\ index.fwd[id][1] # index.fwd[id][2]
          /\ FieldIndex_values_count(index, id) = 2

(***************************************************************************)
(* C31 .. C32, C37: the gRPC authentication gate.                          *)
(***************************************************************************)
HealthCheckPaths == {<<"qdrant.Qdrant", "HealthCheck">>, <<"grpc.health.v1.Health", "Check">>}

\* C31: for a request whose path is none of the two health-check paths, call invokes
\* the inner service at most once and only after validate_request succeeded; when
\* validation fails the inner service is not invoked and call resolves to
\* Ok(response) with the mapped status (Unauthorized -> unauthenticated, Forbidden ->
\* permission_denied, StorageError -> its Status conversion), never to a service error.
C31_AuthenticationGate ==
    (grpc.pc # "idle" /\ grpc.req.uri.path \notin HealthCheckPaths) =>
        /\ grpc.inner_calls <= 1
        /\ \A i \in 1..Len(grpc.outer) :
              grpc.outer[i].inner_calls = 1 /\ grpc.outer[i].validate_calls = 1
        /\ grpc.inner_calls = 1 =>
              /\ grpc.validate_calls = 1 /\ grpc.validated # <<>> /\ grpc.validated[1].ok
              /\ grpc.req.key \in {"rw", "ro"}
        /\ grpc.pc = "validating" => grpc.inner_calls = 0 /\ grpc.out = "none"
        /\ (grpc.pc = "dropped" /\ grpc.validated = <<>>) =>
              grpc.inner_calls = 0 /\ grpc.handled = <<>>
        /\ (grpc.validated # <<>> /\ ~grpc.validated[1].ok) =>
              /\ grpc.inner_calls = 0 /\ grpc.pc \in {"checked", "rejected"}
              /\ grpc.status = (CASE grpc.validated[1].err = "Unauthorized" -> "unauthenticated"
                                  [] grpc.validated[1].err = "Forbidden" -> "permission_denied"
                                  [] grpc.validated[1].err = "StorageError" -> "from_storage_error")
              /\ grpc.pc = "rejected" => grpc.out = "Ok(status)"
        /\ grpc.out = "Err(service error)" => grpc.inner_calls = 1

\* a request with a wrong key was refused as permission_denied without reaching the
\* inner service
C31_Witness ==
    /\ grpc.pc = "rejected" /\ grpc.req.key = "wrong"
    /\ grpc.req.uri.path = <<"qdrant.Points", "Upsert">>
    /\ grpc.validated = <<[ok |-> FALSE, err |-> "Forbidden"]>>
    /\ grpc.status = "permission_denied" /\ grpc.out = "Ok(status)"
    /\ grpc.inner_calls = 0

\* C32: the two debug assertions of check hold for every request that passes
\* validation: when check inserts the validated Access and the inference token, none
\* is present in the request yet, also when the request went through another
\* AuthMiddleware layer before.
C32_DebugAssertionsHold ==
    (grpc.pc # "idle" /\ grpc.validated # <<>> /\ grpc.validated[1].ok) => grpc.asserts

\* C37: the first extract_access on a request returns the Access the middleware
\* inserted and removes it, so that a second call returns full access whatever the
\* first returned; on a request without an Access it returns full access.
C37_ExtractAccessConsumes ==
    /\ grpc.pc \in {"serving", "served", "dropped"} =>
          /\ \A i \in 1..Len(grpc.extracted) :
                grpc.extracted[i] = IF i = 1 THEN grpc.req.access ELSE "full"
          /\ grpc.extracted # <<>> => grpc.handled[1].access = "absent"
          /\ (grpc.extracted = <<>> /\ grpc.handled # <<>>) =>
                grpc.handled[1].access = grpc.req.access
    /\ grpc.pc = "called" =>
          (grpc.req.access = "absent" => extract_access(grpc.req).access = "full")

\* a handler asked twice for the Access of a read-only request: read_only, then full
C37_Witness ==
    /\ grpc.pc = "served"
    /\ grpc.req.access = "read_only"
    /\ grpc.extracted = <<"read_only", "full">>

(***************************************************************************)
(* C33 .. C36: the REST response helpers.                                  *)
(***************************************************************************)
\* C33: with time(future) and with time_or_accept(future, wait = true) the response
\* reflects the outcome of the future and is never 202 Accepted: Ok gives 200 with
\* the result and status Ok, Err(e) the status code mapped from e with no result;
\* with wait = true a task that panicked is answered with an error response.
C33_WaitReflectsOutcome ==
    (http.pc = "responded" /\ (http.helper = "time" \/ http.wait)) =>
        LET response == http.response[1] IN
        /\ response.status # 202 /\ response.api_status # "Accepted"
        /\ (http.result # <<>> /\ http.result[1].ok) =>
              response.status = 200 /\ response.result = "Some" /\ response.api_status = "Ok"
        /\ (http.result # <<>> /\ ~http.result[1].ok) =>
              /\ response.status = status_code(http.result[1].err)
              /\ response.result = "None" /\ response.api_status = "Error"
        /\ http.result = <<>> =>
              /\ http.helper = "time_or_accept" /\ http.task = "panicked"
              /\ response.status >= 400 /\ response.result = "None" /\ response.api_status = "Error"

\* time_or_accept with wait = true answered a task that panicked with an error
C33_Witness ==
    /\ http.pc = "responded" /\ http.helper = "time_or_accept" /\ http.wait
    /\ http.task = "panicked" /\ http.result = <<>>
    /\ http.response[1].status = 500 /\ http.response[1].api_status = "Error"

\* C34: once time_or_accept has spawned the task, the operation runs to its end in
\* both wait modes, whether the response future is still awaiting, has answered or
\* was dropped before the task finished; with time() dropping the response future
\* cancels the operation at its await point.
C34_SpawnedTaskDetached ==
    /\ [](http.pc = "dropped" => http.task # "cancelled")
    /\ (http.helper = "time_or_accept" /\ http.task = "running")
          ~> (http.task \in {"done", "panicked"})
    /\ []((http.pc = "dropped" /\ http.helper = "time") =>
              (http.inline \in {"none", "cancelled"} /\ http.result = <<>>))

\* the response future of time_or_accept with wait was dropped while the task ran,
\* and the task has returned its result all the same
C34_Witness ==
    /\ http.pc = "dropped" /\ http.helper = "time_or_accept" /\ http.wait
    /\ http.task = "done" /\ http.result # <<>> /\ http.response = <<>>

\* C35: every ServiceError returned by a future wrapped in time or time_or_accept is
\* logged exactly once, whatever the wait mode, and no error of another kind is
\* logged: once no operation is under way, the error log holds one entry per
\* ServiceError returned (and per join error answered).
C35_ServiceErrorLoggedOnce ==
    (http.pc \in {"responded", "dropped"} /\ http.task # "running") =>
        http.logs = http.service_errors + http.join_errors

\* C36: status_code maps BadInput, BadRequest, ChecksumMismatch and InferenceError to
\* 400, NotFound to 404, ServiceError and PreconditionFailed to 500, Locked and
\* Forbidden to 403, Timeout to 408, AlreadyExists to 409, RateLimitExceeded to 429
\* and ShardUnavailable to 503, for every kind; the error response carries that
\* status, no result and an error status.
C36_StatusCodeTable ==
    LET table(kind) ==
            CASE kind \in {"BadInput", "BadRequest", "ChecksumMismatch", "InferenceError"} -> 400
              [] kind = "NotFound" -> 404
              [] kind \in {"ServiceError", "PreconditionFailed"} -> 500
              [] kind \in {"Locked", "Forbidden"} -> 403
              [] kind = "Timeout" -> 408
              [] kind = "AlreadyExists" -> 409
              [] kind = "RateLimitExceeded" -> 429
              [] kind = "ShardUnavailable" -> 503
              [] OTHER -> 0
    IN /\ \A err \in StorageErrors :
             /\ status_code(err) = table(err.kind) /\ table(err.kind) # 0
             /\ LET r == process_response_error(err, http.logs).response IN
                r.status = table(err.kind) /\ r.result = "None" /\ r.api_status = "Error"
       /\ (http.pc = "responded" /\ http.result # <<>> /\ ~http.result[1].ok
             /\ http.response[1].status # 202) =>
             /\ http.response[1].status = table(http.result[1].err.kind)
             /\ http.response[1].result = "None" /\ http.response[1].api_status = "Error"

\* a PreconditionFailed was answered with 500
C36_Witness ==
    /\ http.pc = "responded" /\ http.result # <<>> /\ ~http.result[1].ok
    /\ http.result[1].err.kind = "PreconditionFailed"
    /\ http.response[1].status = 500 /\ http.response[1].api_status = "Error"

(***************************************************************************)
(* C38: add_point is not atomic across its two steps.                      *)
(***************************************************************************)
\* C38: if the pre-clear remove_point(id) fails, add_many is not called and the error
\* is returned; if remove_point succeeds and add_many fails, the error is returned
\* with the previous values of the point removed and not restored; after a failed
\* add_point the point holds its old values or none, never a mix of old and new.
C38_AddPointNotAtomic ==
    index # NoIndex =>
        \A id \in Ids : \A payload \in Payloads(index) :
            LET failed == Err("ServiceError", index)
                cleared == remove_point(index, id)
                r == FieldIndex_add_point(index, id, payload)
            IN /\ ValueIndexer_add_point_after(failed, index, id, payload) = failed
               /\ r.res # "Ok" =>
                     /\ cleared.res = "Ok" /\ r.ix = cleared.ix
                     /\ FieldIndex_values_count(r.ix, id) = 0
                     /\ \A cond \in Conds(index) :
                           LET out == FieldIndex_filter(r.ix, cond) IN
                           (out.some /\ index.variant # "NullIndex") => id \notin out.v
                     /\ \A o \in Ids \ {id} :
                           FieldIndex_values_count(r.ix, o) = FieldIndex_values_count(index, o)

\* an add_point on a point with values failed: the point is left without values
C38_Witness ==
    /\ index # NoIndex
    /\ last.op = "add_point" /\ last.res # "Ok" /\ last.had
    /\ \E id \in Ids : ~payloads[id].present /\ FieldIndex_values_count(index, id) = 0
    /\ \E id \in Ids : payloads[id].present /\ FieldIndex_values_count(index, id) > 0

(***************************************************************************)
(* C39: the numeric view of an index.                                      *)
(***************************************************************************)
\* C39: as_numeric returns a numeric view exactly for IntIndex, DatetimeIndex and
\* FloatIndex, the datetime index as an integer index, and None for every other
\* variant, UuidIndex included; get_ordering_values(id) on the view yields all values
\* of point id, and nothing for a point without values.
C39_NumericView ==
    index # NoIndex =>
        /\ as_numeric(index).some <=> index.variant \in {"IntIndex", "DatetimeIndex", "FloatIndex"}
        /\ index.variant \in {"IntIndex", "DatetimeIndex"} => as_numeric(index) = Some("IntIndex")
        /\ index.variant = "FloatIndex" => as_numeric(index) = Some("FloatIndex")
        /\ index.variant = "UuidIndex" => as_numeric(index) = None
        /\ as_numeric(index).some =>
              \A id \in Ids :
                  LET out == NumericFieldIndex_get_ordering_values(index, id)
                      given == IF payloads[id].present
                               THEN payload_values(index.variant, payloads[id].p) ELSE <<>>
                  IN /\ Len(out) = Len(given) /\ Len(out) = FieldIndex_values_count(index, id)
                     /\ \A i \in 1..Len(out) :
                           /\ out[i].v = given[i].n
                           /\ out[i].t = IF index.variant = "FloatIndex" THEN "Float" ELSE "Int"
                     /\ (last.op = "get_ordering_values" /\ last.idx = id) => last.out = out

\* the ordering values of a point of a datetime index with two values were asked:
\* two integers
C39_Witness ==
    /\ index # NoIndex /\ index.variant = "DatetimeIndex"
    /\ last.op = "get_ordering_values"
    /\ Len(last.out) = 2 /\ last.out[1].t = "Int" /\ last.out[1].v # last.out[2].v
    /\ \E id \in Ids : FieldIndex_values_count(index, id) = 0
                         /\ NumericFieldIndex_get_ordering_values(index, id) = <<>>

====
